---- MODULE Spec2Model ----
(***************************************************************************)
(* Credential resolution of gsc_cli (src/gsc_cli/auth.py).                 *)
(*                                                                         *)
(* The state is the file system (the credential file and one other path),  *)
(* the clock, and the record of the last invocation: which operation ran,  *)
(* its arguments, how it ended, what it returned and the ordered log of    *)
(* its calls to the collaborators (the file system, the ambient default    *)
(* mechanism, the token endpoint).  Every operation of auth.py is one      *)
(* action; its collaborators' answers are inputs drawn with \E.            *)
(***************************************************************************)
EXTENDS Integers, Sequences, FiniteSets, TLC

VARIABLES fs, now, op, arg, exc, msg, obtained, value, log, fsBefore, opTime

vars == <<fs, now, op, arg, exc, msg, obtained, value, log, fsBefore, opTime>>

(***************************************************************************)
(* Bounds of the model.                                                    *)
(***************************************************************************)
\* longest "scopes" list a credential file holds
MaxScopes == 2
\* last instant of the clock
MaxClock == 1
\* longest tuple of dimensions of a query, and of filters
MaxDimensions == 2
MaxFilters == 2
\* most parts, between delimiters, of a filter text given to the parser
MaxParts == 4
\* most rows of a response
MaxRows == 2

(***************************************************************************)
(* auth.py:16-18                                                           *)
(***************************************************************************)
READ_SCOPE == "https://www.googleapis.com/auth/webmasters.readonly"
WRITE_SCOPE == "https://www.googleapis.com/auth/webmasters"
CLOUD_PLATFORM_SCOPE == "https://www.googleapis.com/auth/cloud-platform"
\* a scope that is neither of the two the tool asks for
OTHER_SCOPE == "openid"

ScopeNames == {READ_SCOPE, WRITE_SCOPE, OTHER_SCOPE}

Range(s) == {s[i] : i \in 1..Len(s)}

\* the lists of at most n members of S
RECURSIVE SeqsUpTo(_, _)
SeqsUpTo(S, n) ==
    IF n = 0 THEN {<<>>}
    ELSE LET shorter == SeqsUpTo(S, n - 1)
         IN  shorter \cup {Append(s, x) : s \in {q \in shorter : Len(q) = n - 1},
                                          x \in S}

ScopeLists == {s \in SeqsUpTo(ScopeNames, MaxScopes) : Cardinality(Range(s)) = Len(s)}

(***************************************************************************)
(* paths.py: credentials_file() is the path every operation of auth.py     *)
(* works on; other_file stands for every other path of the file system.    *)
(***************************************************************************)
credentials_file == "credentials.json"
other_file == "other.json"
Paths == {credentials_file, other_file}
NoPath == "<None>"

(***************************************************************************)
(* File contents.  A file is absent, or text that is not JSON, or a JSON   *)
(* value that is not an object, or a JSON object, of which the model keeps *)
(* the members auth.py and the credential library read (client_id stands  *)
(* for client_secret too: the library asks for both).  nl: the text ends   *)
(* with a newline.                                                         *)
(***************************************************************************)
Absent == [kind |-> "absent"]
NoExpiry == [t |-> "absent", at |-> 0]
BadExpiry == [t |-> "garbled", at |-> 0]
At(n) == [t |-> "at", at |-> n]

\* the JSON value of the "scopes" member
JsonScopes ==
    {[t |-> "absent", v |-> <<>>], [t |-> "number", v |-> <<>>]}
    \cup {[t |-> "list", v |-> s] : s \in ScopeLists}
    \cup {[t |-> "str", v |-> s] : s \in {q \in ScopeLists : Len(q) = 1}}

Object(scopes, refresh_token, client_id, token, expiry, nl) ==
    [kind |-> "object", scopes |-> scopes, refresh_token |-> refresh_token,
     client_id |-> client_id, token |-> token, expiry |-> expiry, nl |-> nl]

\* the credential files an invocation may find at its start
InitialFiles ==
    {Absent, [kind |-> "badjson"], [kind |-> "nonobject"]}
    \cup {Object(s, r, c, t, e, FALSE) :
            s \in JsonScopes, r \in {"absent", "", "r"}, c \in {"absent", "abc"},
            t \in {"absent", "t0"}, e \in {NoExpiry, BadExpiry, At(0), At(1)}}

(***************************************************************************)
(* Credentials, as the credential library holds them.                      *)
(***************************************************************************)
NoCred == [none |-> TRUE]
NoScopes == [t |-> "none", v |-> <<>>]

Credential(token, refresh_token, client_id, scopes, expiry) ==
    [token |-> token, refresh_token |-> refresh_token, client_id |-> client_id,
     scopes |-> scopes, expiry |-> expiry]

\* Python truthiness of an optional string member
Truthy(s) == s \notin {"absent", ""}

\* credentials.expired: no expiry means not expired
Expired(c, t) == c.expiry.t = "at" /\ t >= c.expiry.at

\* credentials.valid: a token that has not expired
Valid(c, t) == c.token # "absent" /\ ~Expired(c, t)

(***************************************************************************)
(* The collaborators.                                                      *)
(***************************************************************************)
\* lifetime of a token the endpoint issues, in clock instants
TokenLifetime == 1

\* the outcomes of credentials.refresh(Request()): a new token, or one of the
\* two errors the token endpoint and the transport raise
RefreshOutcomes ==
    {[exc |-> "none", token |-> "t1"]}
    \cup {[exc |-> e, token |-> "absent"] : e \in {"RefreshError", "TransportError"}}

\* credentials.refresh on success: the new token, a new expiry
refresh(credentials, token, t) ==
    [credentials EXCEPT !.token = token, !.expiry = At(t + TokenLifetime)]

\* Credentials.from_authorized_user_file: which files the library rejects
Unparsable(doc) ==
    \/ doc.kind \in {"badjson", "nonobject"}
    \/ /\ doc.kind = "object"
       /\ \/ doc.refresh_token = "absent"
          \/ doc.client_id = "absent"
          \/ doc.expiry = BadExpiry

\* Credentials.from_authorized_user_file on a file it accepts: a string of
\* scopes is split into a list, and a missing expiry is one that has passed
from_authorized_user_file(doc, t) ==
    Credential(doc.token, doc.refresh_token, doc.client_id,
               CASE doc.scopes.t = "absent" -> NoScopes
                 [] doc.scopes.t = "str" -> [t |-> "list", v |-> doc.scopes.v]
                 [] OTHER -> doc.scopes,
               IF doc.expiry = NoExpiry THEN At(t) ELSE doc.expiry)

\* credentials.to_json(): members that are None are left out
to_json(credentials) ==
    Object(IF credentials.scopes = NoScopes THEN [t |-> "absent", v |-> <<>>]
           ELSE credentials.scopes,
           credentials.refresh_token, credentials.client_id,
           credentials.token, credentials.expiry, FALSE)

\* text + "\n"
WithNewline(doc) == [doc EXCEPT !.nl = TRUE]

\* google.auth.default(scopes=...): no credential (DefaultCredentialsError), or
\* a credential as the library hands it out: one with a token, valid or
\* expired, with or without a refresh token, or a fresh one of a service
\* account, which has no token, no expiry and no refresh token yet
AdcOutcomes(scopes, t) ==
    {NoCred}
    \cup {Credential("t0", r, "abc", [t |-> "list", v |-> scopes], e) :
            r \in {"absent", "r"}, e \in {At(t + 1), At(t)}}
    \cup {Credential("absent", "absent", "abc", [t |-> "list", v |-> scopes], NoExpiry)}

\* the outcomes of the installed-app flow of login
FlowOutcomes ==
    {[exc |-> "none", token |-> "t2"]}
    \cup {[exc |-> e, token |-> "absent"] : e \in {"OSError", "Exception"}}

(***************************************************************************)
(* The log of an invocation: its calls to the collaborators, in order.     *)
(***************************************************************************)
Ev(e, path, scopes) == [e |-> e, path |-> path, scopes |-> scopes]
EvExists(path) == Ev("exists", path, <<>>)
EvRead(path) == Ev("read", path, <<>>)
EvAdc(scopes) == Ev("adc", NoPath, scopes)
EvRefresh == Ev("refresh", NoPath, <<>>)
EvWrite(path) == Ev("write", path, <<>>)
EvFlow(scopes) == Ev("flow", NoPath, scopes)

Count(s, e) == Cardinality({i \in 1..Len(s) : s[i].e = e})

(***************************************************************************)
(* Messages of AuthError: the kind of the text, whether it tells the user  *)
(* to run `gsc auth login` again, and the value of --scopes in the gcloud  *)
(* command it holds (empty when it holds none).                            *)
(***************************************************************************)
Msg(kind, relogin, scopes) == [kind |-> kind, relogin |-> relogin, scopes |-> scopes]
NoMsg == Msg("none", FALSE, <<>>)

\* auth.py:167-176
_missing_credentials_message(scope) ==
    Msg("No usable credentials found", FALSE, <<CLOUD_PLATFORM_SCOPE, scope>>)

\* _refresh_failed_message that names the read scope whatever is required
_refresh_failed_message_read(scope) ==
    Msg("Failed to refresh ADC credentials", FALSE, <<CLOUD_PLATFORM_SCOPE, READ_SCOPE>>)

\* auth.py:179-186
_refresh_failed_message(scope) ==
    Msg("Failed to refresh ADC credentials", FALSE, <<CLOUD_PLATFORM_SCOPE, scope>>)

(***************************************************************************)
(* The result of running a function: the exception it raised ("none" when  *)
(* it returned), the message of the exception, the value returned, the     *)
(* credential obtained before the validity check, the log, the files.      *)
(***************************************************************************)
Run(e, m, o, v, l, files) ==
    [exc |-> e, msg |-> m, obtained |-> o, value |-> v, log |-> l, fs |-> files]

\* _validate_scope without the superset rule
_validate_scope_exact(granted_scopes, required_scope) ==
    IF granted_scopes.t = "none" \/ (granted_scopes.t = "list" /\ granted_scopes.v = <<>>)
    THEN [exc |-> "AuthError", msg |-> Msg("Stored credentials missing scopes", TRUE, <<>>)]
    ELSE IF granted_scopes.t # "list"
    THEN [exc |-> "TypeError", msg |-> NoMsg]
    ELSE IF required_scope \in Range(granted_scopes.v)
    THEN [exc |-> "none", msg |-> NoMsg]
    ELSE [exc |-> "AuthError",
          msg |-> Msg("Stored credentials do not include required scope",
                      TRUE, <<required_scope>>)]

(***************************************************************************)
(* auth.py:147-164.  granted_scopes is None, a list, or (the library does  *)
(* not check the member) whatever else the file's "scopes" holds.          *)
(***************************************************************************)
_validate_scope(granted_scopes, required_scope) ==
    IF granted_scopes.t = "none" \/ (granted_scopes.t = "list" /\ granted_scopes.v = <<>>)
    THEN [exc |-> "AuthError", msg |-> Msg("Stored credentials missing scopes", TRUE, <<>>)]
    ELSE IF granted_scopes.t # "list"
    THEN \* set(granted_scopes) of a value that is not iterable
         [exc |-> "TypeError", msg |-> NoMsg]
    ELSE LET scope_set == Range(granted_scopes.v)
         IN  IF required_scope = READ_SCOPE /\ WRITE_SCOPE \in scope_set
             THEN [exc |-> "none", msg |-> NoMsg]
             ELSE IF required_scope \in scope_set
             THEN [exc |-> "none", msg |-> NoMsg]
             ELSE [exc |-> "AuthError",
                   msg |-> Msg("Stored credentials do not include required scope",
                               TRUE, <<required_scope>>)]

\* _persist_credentials that writes the document without the newline
_persist_credentials_bare(credentials, path, files) ==
    [files EXCEPT ![path] = to_json(credentials)]

\* _persist_credentials that writes the new expiry into the document it finds
_persist_credentials_patch(credentials, path, files) ==
    IF files[path].kind = "object"
    THEN [files EXCEPT ![path] = [@ EXCEPT !.expiry = credentials.expiry, !.nl = TRUE]]
    ELSE [files EXCEPT ![path] = WithNewline(to_json(credentials))]

(***************************************************************************)
(* auth.py:142-144: the whole document, then a newline.                    *)
(***************************************************************************)
_persist_credentials(credentials, path, files) ==
    [files EXCEPT ![path] = WithNewline(to_json(credentials))]

\* _ensure_valid_credentials that returns the credential when the refresh fails
_ensure_valid_credentials_swallow(credentials, source_path, required_scope, ro, l, files, t) ==
    IF Valid(credentials, t)
    THEN Run("none", NoMsg, credentials, credentials, l, files)
    ELSE IF Expired(credentials, t) /\ Truthy(credentials.refresh_token)
    THEN IF ro.exc # "none"
         THEN Run("none", NoMsg, credentials, credentials, Append(l, EvRefresh), files)
         ELSE IF source_path # NoPath
              THEN Run("none", NoMsg, credentials, refresh(credentials, ro.token, t),
                       l \o <<EvRefresh, EvWrite(source_path)>>,
                       _persist_credentials(refresh(credentials, ro.token, t),
                                            source_path, files))
              ELSE Run("none", NoMsg, credentials, refresh(credentials, ro.token, t),
                       Append(l, EvRefresh), files)
    ELSE IF source_path # NoPath
    THEN Run("AuthError",
             Msg("Stored OAuth credentials are invalid and cannot be refreshed", TRUE, <<>>),
             credentials, NoCred, l, files)
    ELSE Run("AuthError", _refresh_failed_message(required_scope),
             credentials, NoCred, l, files)

\* _ensure_valid_credentials that refreshes every credential holding a refresh
\* token, valid or not
_ensure_valid_credentials_eager(credentials, source_path, required_scope, ro, l, files, t) ==
    IF Truthy(credentials.refresh_token)
    THEN IF ro.exc # "none"
         THEN IF source_path # NoPath
              THEN Run("AuthError",
                       Msg("Stored OAuth credentials could not be refreshed", TRUE, <<>>),
                       credentials, NoCred, Append(l, EvRefresh), files)
              ELSE Run("AuthError", _refresh_failed_message(required_scope),
                       credentials, NoCred, Append(l, EvRefresh), files)
         ELSE IF source_path # NoPath
              THEN Run("none", NoMsg, credentials, refresh(credentials, ro.token, t),
                       l \o <<EvRefresh, EvWrite(source_path)>>,
                       _persist_credentials(refresh(credentials, ro.token, t),
                                            source_path, files))
              ELSE Run("none", NoMsg, credentials, refresh(credentials, ro.token, t),
                       Append(l, EvRefresh), files)
    ELSE IF Valid(credentials, t)
    THEN Run("none", NoMsg, credentials, credentials, l, files)
    ELSE IF source_path # NoPath
    THEN Run("AuthError",
             Msg("Stored OAuth credentials are invalid and cannot be refreshed", TRUE, <<>>),
             credentials, NoCred, l, files)
    ELSE Run("AuthError", _refresh_failed_message(required_scope),
             credentials, NoCred, l, files)

(***************************************************************************)
(* auth.py:114-139.  ro is the outcome of the refresh, should it be asked  *)
(* for; source_path is NoPath for an ambient credential.                   *)
(***************************************************************************)
_ensure_valid_credentials(credentials, source_path, required_scope, ro, l, files, t) ==
    IF Valid(credentials, t)
    THEN Run("none", NoMsg, credentials, credentials, l, files)
    ELSE IF Expired(credentials, t) /\ Truthy(credentials.refresh_token)
    THEN IF ro.exc # "none"
         THEN IF source_path # NoPath
              THEN Run("AuthError",
                       Msg("Stored OAuth credentials could not be refreshed", TRUE, <<>>),
                       credentials, NoCred, Append(l, EvRefresh), files)
              ELSE Run("AuthError", _refresh_failed_message(required_scope),
                       credentials, NoCred, Append(l, EvRefresh), files)
         ELSE IF source_path # NoPath
              THEN Run("none", NoMsg, credentials, refresh(credentials, ro.token, t),
                       l \o <<EvRefresh, EvWrite(source_path)>>,
                       _persist_credentials(refresh(credentials, ro.token, t),
                                            source_path, files))
              ELSE Run("none", NoMsg, credentials, refresh(credentials, ro.token, t),
                       Append(l, EvRefresh), files)
    ELSE IF source_path # NoPath
    THEN Run("AuthError",
             Msg("Stored OAuth credentials are invalid and cannot be refreshed", TRUE, <<>>),
             credentials, NoCred, l, files)
    ELSE Run("AuthError", _refresh_failed_message(required_scope),
             credentials, NoCred, l, files)

\* _load_stored_credentials that checks the scope after the validity
_load_stored_credentials_late(required_scope, ro, files, t) ==
    LET path == credentials_file
        l0 == <<EvExists(path)>>
        l1 == Append(l0, EvRead(path))
    IN  IF files[path] = Absent
        THEN Run("none", NoMsg, NoCred, NoCred, l0, files)
        ELSE IF Unparsable(files[path])
        THEN Run("AuthError", Msg("Stored credentials are unreadable", TRUE, <<>>),
                 NoCred, NoCred, l1, files)
        ELSE LET credentials == from_authorized_user_file(files[path], t)
                 ensured == _ensure_valid_credentials(credentials, path, required_scope,
                                                      ro, l1, files, t)
                 checked == _validate_scope(credentials.scopes, required_scope)
             IN  IF ensured.exc = "none" /\ checked.exc # "none"
                 THEN Run(checked.exc, checked.msg, credentials, NoCred,
                          ensured.log, ensured.fs)
                 ELSE ensured

(***************************************************************************)
(* auth.py:84-98.  The value NoCred with no exception is Python's None.    *)
(***************************************************************************)
_load_stored_credentials(required_scope, ro, files, t) ==
    LET path == credentials_file
        l0 == <<EvExists(path)>>
        l1 == Append(l0, EvRead(path))
    IN  IF files[path] = Absent
        THEN Run("none", NoMsg, NoCred, NoCred, l0, files)
        ELSE IF Unparsable(files[path])
        THEN Run("AuthError", Msg("Stored credentials are unreadable", TRUE, <<>>),
                 NoCred, NoCred, l1, files)
        ELSE LET credentials == from_authorized_user_file(files[path], t)
                 checked == _validate_scope(credentials.scopes, required_scope)
             IN  IF checked.exc # "none"
                 THEN Run(checked.exc, checked.msg, credentials, NoCred, l1, files)
                 ELSE _ensure_valid_credentials(credentials, path, required_scope,
                                                ro, l1, files, t)

\* _load_adc_credentials that asks for the read scope whatever is required
_load_adc_credentials_read(required_scope, adc, ro, l, files, t) ==
    IF adc = NoCred
    THEN Run("AuthError", _missing_credentials_message(required_scope),
             NoCred, NoCred, Append(l, EvAdc(<<READ_SCOPE>>)), files)
    ELSE _ensure_valid_credentials(adc, NoPath, required_scope, ro,
                                   Append(l, EvAdc(<<READ_SCOPE>>)), files, t)

\* _load_adc_credentials that hands the credential file on as the source
_load_adc_credentials_persist(required_scope, adc, ro, l, files, t) ==
    IF adc = NoCred
    THEN Run("AuthError", _missing_credentials_message(required_scope),
             NoCred, NoCred, Append(l, EvAdc(<<required_scope>>)), files)
    ELSE _ensure_valid_credentials(adc, credentials_file, required_scope, ro,
                                   Append(l, EvAdc(<<required_scope>>)), files, t)

(***************************************************************************)
(* auth.py:101-111.  adc is what google.auth.default answers.              *)
(***************************************************************************)
_load_adc_credentials(required_scope, adc, ro, l, files, t) ==
    IF adc = NoCred
    THEN Run("AuthError", _missing_credentials_message(required_scope),
             NoCred, NoCred, Append(l, EvAdc(<<required_scope>>)), files)
    ELSE _ensure_valid_credentials(adc, NoPath, required_scope, ro,
                                   Append(l, EvAdc(<<required_scope>>)), files, t)

(***************************************************************************)
(* auth.py:50-58                                                           *)
(***************************************************************************)
RequiredScope(write) == IF write THEN WRITE_SCOPE ELSE READ_SCOPE

\* load_credentials that takes a stored credential it could not use for none
load_credentials_fallthrough(write, adc, ro, files, t) ==
    LET required_scope == RequiredScope(write)
        stored == _load_stored_credentials(required_scope, ro, files, t)
    IN  IF stored.exc = "none" /\ stored.value # NoCred
        THEN stored
        ELSE _load_adc_credentials(required_scope, adc, ro, stored.log, files, t)

load_credentials(write, adc, ro, files, t) ==
    LET required_scope == RequiredScope(write)
        stored == _load_stored_credentials(required_scope, ro, files, t)
    IN  IF stored.exc # "none" \/ stored.value # NoCred
        THEN stored
        ELSE _load_adc_credentials(required_scope, adc, ro, stored.log, files, t)

(***************************************************************************)
(* auth.py:61-81.  The value is None (NoInfo) or the projection.           *)
(***************************************************************************)
NoInfo == [none |-> TRUE]

stored_credentials_info(files) ==
    LET path == credentials_file
        payload == files[path]
        l0 == <<EvExists(path)>>
        l1 == Append(l0, EvRead(path))
    IN  IF payload = Absent
        THEN Run("none", NoMsg, NoCred, NoInfo, l0, files)
        ELSE IF payload.kind = "badjson"
        THEN Run("AuthError", Msg("Stored credentials are invalid JSON", FALSE, <<>>),
                 NoCred, NoInfo, l1, files)
        ELSE IF payload.kind = "nonobject"
        THEN \* payload.get of a JSON value that is not an object
             Run("AttributeError", NoMsg, NoCred, NoInfo, l1, files)
        ELSE Run("none", NoMsg, NoCred,
                 [path |-> path,
                  scopes |-> IF payload.scopes.t = "list" THEN payload.scopes.v ELSE <<>>,
                  has_refresh_token |-> Truthy(payload.refresh_token),
                  client_id |-> payload.client_id],
                 l1, files)

(***************************************************************************)
(* auth.py:25-47.  flow is the outcome of the installed-app flow.          *)
(***************************************************************************)
login_with_client_secret(write, flow, files, t) ==
    LET scope == RequiredScope(write)
        l0 == <<EvFlow(<<scope>>)>>
        credentials == Credential(flow.token, "r", "abc",
                                  [t |-> "list", v |-> <<scope>>], At(t + TokenLifetime))
    IN  IF flow.exc = "OSError"
        THEN Run("AuthError", Msg("Could not read client secret file", FALSE, <<>>),
                 NoCred, NoCred, l0, files)
        ELSE IF flow.exc # "none"
        THEN Run("AuthError", Msg("OAuth login failed", FALSE, <<>>),
                 NoCred, NoCred, l0, files)
        ELSE Run("none", NoMsg, credentials, credentials_file,
                 Append(l0, EvWrite(credentials_file)),
                 _persist_credentials(credentials, credentials_file, files))

(***************************************************************************)
(* The state machine.                                                      *)
(***************************************************************************)
Init ==
    /\ fs \in {[p \in Paths |-> IF p = credentials_file THEN f ELSE Absent] :
                 f \in InitialFiles}
    /\ now = 0
    /\ op = "none"
    /\ arg = FALSE
    /\ exc = "none"
    /\ msg = NoMsg
    /\ obtained = NoCred
    /\ value = NoCred
    /\ log = <<>>
    /\ fsBefore = fs
    /\ opTime = 0

\* the effect of one invocation on the state
Finish(name, write, r) ==
    /\ op' = name
    /\ arg' = write
    /\ exc' = r.exc
    /\ msg' = r.msg
    /\ obtained' = r.obtained
    /\ value' = r.value
    /\ log' = r.log
    /\ fs' = r.fs
    /\ fsBefore' = fs
    /\ opTime' = now
    /\ UNCHANGED now

LoadCredentials ==
    \E write \in BOOLEAN :
      \E adc \in AdcOutcomes(<<RequiredScope(write)>>, now), ro \in RefreshOutcomes :
        Finish("load_credentials", write, load_credentials(write, adc, ro, fs, now))

StoredCredentialsInfo ==
    Finish("stored_credentials_info", FALSE, stored_credentials_info(fs))

Login ==
    \E write \in BOOLEAN, flow \in FlowOutcomes :
        Finish("login_with_client_secret", write,
               login_with_client_secret(write, flow, fs, now))

\* time passes between invocations
Tick ==
    /\ now < MaxClock
    /\ now' = now + 1
    /\ UNCHANGED <<fs, op, arg, exc, msg, obtained, value, log, fsBefore, opTime>>

Next == LoadCredentials \/ StoredCredentialsInfo \/ Login \/ Tick

Spec == Init /\ [][Next]_vars

(***************************************************************************)
(* What the last invocation was and did.                                   *)
(***************************************************************************)
IsLoad == op = "load_credentials"
Required == RequiredScope(arg)
\* the credential file existed when the invocation began
Stored == fsBefore[credentials_file] # Absent
AdcCalls == Count(log, "adc")
RefreshCalls == Count(log, "refresh")
Writes == Count(log, "write")
ScopeKinds == {"Stored credentials missing scopes",
               "Stored credentials do not include required scope"}
\* a credential was obtained and, when it came from the file, passed the
\* scope check
Obtained == IsLoad /\ obtained # NoCred /\ exc # "TypeError" /\ msg.kind \notin ScopeKinds
\* the superset rule of the data model
Satisfies(G, R) == R \in G \/ (R = READ_SCOPE /\ WRITE_SCOPE \in G)
\* the stored credential was parsed, and its scopes are a list or None
Parsed ==
    /\ IsLoad /\ Stored /\ obtained # NoCred
    /\ obtained.scopes.t \in {"none", "list"}

(***************************************************************************)
(* C1.  Whenever load_credentials returns, for either scope level and      *)
(* either source, the credential it returns is valid and not expired at    *)
(* that moment, also after the refresh step; otherwise it raises and       *)
(* returns nothing.                                                        *)
(***************************************************************************)
C1_ReturnedIsValid ==
    IsLoad =>
        IF exc = "none"
        THEN value # NoCred /\ Valid(value, opTime) /\ ~Expired(value, opTime)
        ELSE value = NoCred

C1_Witness ==
    IsLoad /\ exc = "none" /\ RefreshCalls = 1 /\ ~Valid(obtained, opTime)

(***************************************************************************)
(* C2.  When the credential file exists the ambient mechanism is never     *)
(* consulted, whatever the stored path ends in; a file the library cannot  *)
(* parse ends the call in the AuthError that tells to run login again.     *)
(***************************************************************************)
C2_StoredNeverFallsThrough ==
    (IsLoad /\ Stored) =>
        /\ AdcCalls = 0
        /\ Unparsable(fsBefore[credentials_file]) =>
              (exc = "AuthError" /\ msg.relogin /\ value = NoCred)

C2_Witness ==
    IsLoad /\ Stored /\ Unparsable(fsBefore[credentials_file]) /\ exc = "AuthError"

(***************************************************************************)
(* C3.  Superset rule: for every granted scope list G (or None) of a       *)
(* stored credential and each required scope R, the scope check accepts    *)
(* iff R is in G, or R is the read scope and the write scope is in G;      *)
(* every other grant ends in a scope AuthError.                            *)
(***************************************************************************)
C3_SupersetRule ==
    Parsed =>
        LET G == Range(obtained.scopes.v)
        IN  /\ Satisfies(G, Required) <=> msg.kind \notin ScopeKinds
            /\ msg.kind \in ScopeKinds => exc = "AuthError"
            /\ (G = {READ_SCOPE} /\ Required = WRITE_SCOPE) =>
                  msg.kind = "Stored credentials do not include required scope"

C3_Witness ==
    /\ Parsed /\ Required = READ_SCOPE /\ exc = "none"
    /\ READ_SCOPE \notin Range(obtained.scopes.v)
    /\ WRITE_SCOPE \in Range(obtained.scopes.v)

(***************************************************************************)
(* C4.  A stored credential whose granted scopes (a list, empty or not, or *)
(* None) do not satisfy the required scope ends load_credentials in        *)
(* AuthError with no fallback: the ambient mechanism is not consulted,     *)
(* the refresh is not invoked, the credential file is not modified.        *)
(***************************************************************************)
C4_ScopeFailureIsFatal ==
    (Parsed /\ ~Satisfies(Range(obtained.scopes.v), Required)) =>
        /\ exc = "AuthError" /\ msg.relogin /\ value = NoCred
        /\ AdcCalls = 0 /\ RefreshCalls = 0 /\ Writes = 0
        /\ fs = fsBefore

C4_Witness ==
    /\ Parsed /\ obtained.scopes = NoScopes /\ exc = "AuthError"
    /\ Expired(obtained, opTime) /\ Truthy(obtained.refresh_token)

(***************************************************************************)
(* C5.  The ambient mechanism is consulted only when there is no stored    *)
(* credential file, and then once, with the list holding exactly the       *)
(* required scope; when it yields no credential, load_credentials ends in  *)
(* the 'No usable credentials found' AuthError.                            *)
(***************************************************************************)
C5_AmbientOnlyWithoutFile ==
    IsLoad =>
        /\ AdcCalls > 0 => ~Stored
        /\ ~Stored => /\ AdcCalls = 1
                      /\ \A i \in 1..Len(log) :
                            log[i].e = "adc" => log[i].scopes = <<Required>>
        /\ (~Stored /\ obtained = NoCred) =>
              /\ exc = "AuthError"
              /\ msg = _missing_credentials_message(Required)
              /\ msg.kind = "No usable credentials found"

C5_Witness ==
    IsLoad /\ ~Stored /\ arg /\ obtained = NoCred /\ exc = "AuthError"

(***************************************************************************)
(* C6.  When the credential obtained, stored or ambient, is already valid, *)
(* load_credentials returns that same credential unchanged: no refresh,    *)
(* no write, the files as they were.                                       *)
(***************************************************************************)
C6_ValidReturnedUnchanged ==
    (Obtained /\ Valid(obtained, opTime)) =>
        /\ exc = "none" /\ value = obtained
        /\ RefreshCalls = 0 /\ Writes = 0
        /\ fs = fsBefore

C6_Witness ==
    /\ Obtained /\ Valid(obtained, opTime) /\ Stored
    /\ Truthy(obtained.refresh_token) /\ exc = "none"

(***************************************************************************)
(* C7.  An expired credential with a refresh token whose refresh succeeds: *)
(* from the stored file, the refresh is followed by one write of the whole *)
(* refreshed document and a newline to that same path, and by nothing      *)
(* else, before the return; from the ambient path the refresh is invoked   *)
(* and nothing is written.                                                 *)
(***************************************************************************)
RefreshedOk ==
    /\ Obtained /\ ~Valid(obtained, opTime) /\ Expired(obtained, opTime)
    /\ Truthy(obtained.refresh_token) /\ exc = "none"

C7_RefreshedIsPersisted ==
    RefreshedOk =>
        /\ RefreshCalls = 1
        /\ value # obtained /\ Valid(value, opTime)
        /\ IF Stored
           THEN /\ Len(log) >= 2
                /\ SubSeq(log, Len(log) - 1, Len(log))
                      = <<EvRefresh, EvWrite(credentials_file)>>
                /\ Writes = 1
                /\ fs[credentials_file] = WithNewline(to_json(value))
                /\ fs[credentials_file].nl
                /\ fs[other_file] = fsBefore[other_file]
           ELSE Writes = 0 /\ fs = fsBefore

C7_Witness ==
    RefreshedOk /\ Stored /\ fs[credentials_file] # fsBefore[credentials_file]

(***************************************************************************)
(* C8.  When the refresh fails (rejected, or the transport failed),        *)
(* load_credentials ends in AuthError and the credential file is as it     *)
(* was; a stored credential gets the message to run login again, an        *)
(* ambient one the gcloud command whose --scopes is the cloud-platform     *)
(* scope followed by the required scope.                                   *)
(***************************************************************************)
RefreshFailed == IsLoad /\ RefreshCalls > 0 /\ exc # "none"

C8_RefreshFailure ==
    RefreshFailed =>
        /\ exc = "AuthError" /\ value = NoCred
        /\ fs = fsBefore /\ Writes = 0
        /\ IF Stored
           THEN msg.relogin /\ msg.scopes = <<>>
           ELSE /\ ~msg.relogin
                /\ msg.kind = "Failed to refresh ADC credentials"
                /\ msg.scopes = <<CLOUD_PLATFORM_SCOPE, Required>>

C8_Witness == RefreshFailed /\ ~Stored /\ arg

(***************************************************************************)
(* C9.  The three-path state machine, exhaustively: a credential that is   *)
(* not valid ends load_credentials in failure without a refresh if and     *)
(* only if it carries no refresh token, and every credential that is not   *)
(* valid and carries one has the refresh invoked exactly once.             *)
(***************************************************************************)
C9_ThreePaths ==
    (Obtained /\ ~Valid(obtained, opTime)) =>
        /\ (exc # "none" /\ RefreshCalls = 0) <=> ~Truthy(obtained.refresh_token)
        /\ Truthy(obtained.refresh_token) => RefreshCalls = 1

(***************************************************************************)
(* C10.  stored_credentials_info is read-only introspection: None when no  *)
(* credential file exists; the projection (path, scopes list, with a       *)
(* scopes value that is no list given as the empty list, has_refresh_token,*)
(* client_id) of a file that holds a JSON object; AuthError for every      *)
(* other file; and never a refresh, a use of the ambient mechanism or a    *)
(* write.                                                                  *)
(***************************************************************************)
IsInfo == op = "stored_credentials_info"

C10_InfoIsReadOnlyProjection ==
    IsInfo =>
        LET file == fsBefore[credentials_file]
        IN  /\ fs = fsBefore
            /\ RefreshCalls = 0 /\ AdcCalls = 0 /\ Writes = 0
            /\ CASE file = Absent -> exc = "none" /\ value = NoInfo
                 [] file.kind = "object" ->
                      /\ exc = "none"
                      /\ value = [path |-> credentials_file,
                                  scopes |-> IF file.scopes.t = "list"
                                             THEN file.scopes.v ELSE <<>>,
                                  has_refresh_token |-> Truthy(file.refresh_token),
                                  client_id |-> file.client_id]
                 [] OTHER -> exc = "AuthError"

(***************************************************************************)
(* The query engine of gsc_cli (src/gsc_cli/analytics.py).                 *)
(*                                                                         *)
(* A text is the sequence of its pieces: the delimiter ":" is a piece of   *)
(* its own, a blank " " too, and every other piece is a run of characters  *)
(* holding neither.  The empty text is <<>>.                               *)
(***************************************************************************)
\* analytics.py:7-15
ALLOWED_DIMENSIONS ==
    {"country", "device", "page", "query", "searchAppearance", "date", "hour"}

\* analytics.py:17-23
ALLOWED_FILTER_DIMENSIONS ==
    {"country", "device", "page", "query", "searchAppearance"}

\* analytics.py:25-32
ALLOWED_OPERATORS ==
    {"contains", "equals", "notContains", "notEquals", "includingRegex", "excludingRegex"}

\* analytics.py:34-36
ALLOWED_TYPES == {"web", "image", "video", "news", "discover", "googleNews"}
ALLOWED_AGGREGATION_TYPES == {"auto", "byPage", "byProperty", "byNewsShowcasePanel"}
ALLOWED_DATA_STATES == {"final", "all", "hourly_all"}

\* analytics.py:116
MaxRowLimit == 25000

\* the result of a function of analytics.py: what it returns, or what it raises
NoValue == [none |-> TRUE]
Ret(v) == [exc |-> "none", msg |-> NoMsg, value |-> v]
VMsg(kind, detail) == [kind |-> kind, detail |-> detail]
Raise(kind, detail) == [exc |-> "ValidationError", msg |-> VMsg(kind, detail), value |-> NoValue]

(***************************************************************************)
(* Dates.  The text "YYYY-MM-DD" is kept as its three numbers; the numbers *)
(* need not name a day of the calendar.                                    *)
(***************************************************************************)
DateText(y, m, d) == [y |-> y, m |-> m, d |-> d]

DaysIn(y, m) ==
    IF m \in {4, 6, 9, 11} THEN 30
    ELSE IF m # 2 THEN 31
    ELSE IF y % 4 = 0 /\ (y % 100 # 0 \/ y % 400 = 0) THEN 29 ELSE 28

\* date.fromisoformat raises ValueError for a text that names no day
IsDate(v) == v.m \in 1..12 /\ v.d \in 1..DaysIn(v.y, v.m)

\* start > end of two dates
DateAfter(a, b) ==
    \/ a.y > b.y
    \/ a.y = b.y /\ a.m > b.m
    \/ a.y = b.y /\ a.m = b.m /\ a.d > b.d

\* analytics.py:43-49
parse_ymd(v) ==
    IF IsDate(v) THEN Ret(v) ELSE Raise("Invalid date", v)

\* validate_date_range that compares the days of the month only
validate_date_range_days(start_date, end_date) ==
    IF start_date.d > end_date.d
    THEN Raise("start-date must be <= end-date.", <<>>)
    ELSE Ret(NoValue)

\* analytics.py:52-56
validate_date_range(start_date, end_date) ==
    IF DateAfter(start_date, end_date)
    THEN Raise("start-date must be <= end-date.", <<>>)
    ELSE Ret(NoValue)

(***************************************************************************)
(* Filters.                                                                *)
(***************************************************************************)
\* the position of the first piece of s that is sep, 0 when there is none
Find(s, sep) ==
    IF \E i \in 1..Len(s) : s[i] = sep
    THEN CHOOSE i \in 1..Len(s) : s[i] = sep /\ \A j \in 1..(i - 1) : s[j] # sep
    ELSE 0

\* str.split(sep, maxsplit)
RECURSIVE Split(_, _, _)
Split(s, sep, maxsplit) ==
    IF maxsplit = 0 \/ Find(s, sep) = 0
    THEN <<s>>
    ELSE <<SubSeq(s, 1, Find(s, sep) - 1)>>
         \o Split(SubSeq(s, Find(s, sep) + 1, Len(s)), sep, maxsplit - 1)

\* a part of a filter as a name: the name of a part of one piece, and a text
\* that is no name of any enumeration otherwise
Name(part) == IF Len(part) = 1 THEN part[1] ELSE "<other>"

Filter(dimension, operator, expression) ==
    [dimension |-> dimension, operator |-> operator, expression |-> expression]

\* parse_filter_expression that splits at every delimiter and keeps three parts
parse_filter_expression_all(filter_expression) ==
    LET parts == Split(filter_expression, ":", Len(filter_expression))
    IN  IF Len(parts) < 3
        THEN Raise("Invalid --filter format", <<>>)
        ELSE IF Name(parts[1]) \notin ALLOWED_FILTER_DIMENSIONS
        THEN Raise("Unsupported filter dimension", parts[1])
        ELSE IF Name(parts[2]) \notin ALLOWED_OPERATORS
        THEN Raise("Unsupported filter operator", parts[2])
        ELSE IF parts[3] = <<>>
        THEN Raise("Filter expression cannot be empty.", <<>>)
        ELSE Ret(Filter(Name(parts[1]), Name(parts[2]), parts[3]))

\* parse_filter_expression that checks the operator before the dimension
parse_filter_expression_swapped(filter_expression) ==
    LET parts == Split(filter_expression, ":", 2)
    IN  IF Len(parts) # 3
        THEN Raise("Invalid --filter format", <<>>)
        ELSE IF Name(parts[2]) \notin ALLOWED_OPERATORS
        THEN Raise("Unsupported filter operator", parts[2])
        ELSE IF Name(parts[1]) \notin ALLOWED_FILTER_DIMENSIONS
        THEN Raise("Unsupported filter dimension", parts[1])
        ELSE IF parts[3] = <<>>
        THEN Raise("Filter expression cannot be empty.", <<>>)
        ELSE Ret(Filter(Name(parts[1]), Name(parts[2]), parts[3]))

\* analytics.py:59-87
parse_filter_expression(filter_expression) ==
    LET parts == Split(filter_expression, ":", 2)
    IN  IF Len(parts) # 3
        THEN Raise("Invalid --filter format", <<>>)
        ELSE IF Name(parts[1]) \notin ALLOWED_FILTER_DIMENSIONS
        THEN Raise("Unsupported filter dimension", parts[1])
        ELSE IF Name(parts[2]) \notin ALLOWED_OPERATORS
        THEN Raise("Unsupported filter operator", parts[2])
        ELSE IF parts[3] = <<>>
        THEN Raise("Filter expression cannot be empty.", <<>>)
        ELSE Ret(Filter(Name(parts[1]), Name(parts[2]), parts[3]))

(***************************************************************************)
(* build_query_request, analytics.py:90-159.                               *)
(***************************************************************************)
\* row-limit check with the upper end left out
RowLimitOk_open(row_limit) == 1 <= row_limit /\ row_limit < MaxRowLimit

\* analytics.py:116
RowLimitOk(row_limit) == 1 <= row_limit /\ row_limit <= MaxRowLimit

\* analytics.py:119
StartRowOk(start_row) == ~(start_row < 0)

\* analytics.py:122-127: the first dimension that is not allowed, <<>> if none
FirstUnsupported(dimensions) ==
    LET bad == {i \in 1..Len(dimensions) : dimensions[i] \notin ALLOWED_DIMENSIONS}
    IN  IF bad = {} THEN <<>>
        ELSE <<dimensions[CHOOSE i \in bad : \A j \in bad : i <= j]>>

\* analytics.py:129: the filters parsed in order, or the error of the first
\* that does not parse
RECURSIVE ParseFilters(_)
ParseFilters(filters) ==
    IF filters = <<>> THEN Ret(<<>>)
    ELSE LET first == parse_filter_expression(Head(filters))
             rest == ParseFilters(Tail(filters))
         IN  IF first.exc # "none" THEN first
             ELSE IF rest.exc # "none" THEN rest
             ELSE Ret(<<first.value>> \o rest.value)

\* the byProperty rule that looks at the dimensions only
PageConflict_dimensions(aggregation_type, dimensions, parsed_filters) ==
    aggregation_type = "byProperty" /\ "page" \in Range(dimensions)

\* analytics.py:131-133
PageConflict(aggregation_type, dimensions, parsed_filters) ==
    LET uses_page_dimension == "page" \in Range(dimensions)
        uses_page_filter ==
            \E i \in 1..Len(parsed_filters) : parsed_filters[i].dimension = "page"
    IN  aggregation_type = "byProperty" /\ (uses_page_dimension \/ uses_page_filter)

\* the body with both optional keys always present
RequestBody_always(start_date, end_date, dimensions, query_type, aggregation_type, row_limit, start_row, data_state, parsed_filters) ==
    ("startDate" :> start_date) @@ ("endDate" :> end_date) @@ ("type" :> query_type)
    @@ ("aggregationType" :> aggregation_type) @@ ("rowLimit" :> row_limit)
    @@ ("startRow" :> start_row) @@ ("dataState" :> data_state)
    @@ ("dimensions" :> dimensions)
    @@ ("dimensionFilterGroups" :> <<[groupType |-> "and", filters |-> parsed_filters]>>)

\* analytics.py:138-159: the body, a mapping from its keys
RequestBody(start_date, end_date, dimensions, query_type, aggregation_type, row_limit, start_row, data_state, parsed_filters) ==
    LET body == ("startDate" :> start_date) @@ ("endDate" :> end_date)
                @@ ("type" :> query_type) @@ ("aggregationType" :> aggregation_type)
                @@ ("rowLimit" :> row_limit) @@ ("startRow" :> start_row)
                @@ ("dataState" :> data_state)
        body1 == IF dimensions # <<>> THEN body @@ ("dimensions" :> dimensions) ELSE body
    IN  IF parsed_filters # <<>>
        THEN body1 @@ ("dimensionFilterGroups" :>
                         <<[groupType |-> "and", filters |-> parsed_filters]>>)
        ELSE body1

\* build_query_request that checks the row limit where the type is checked
build_query_request_rows(start_date, end_date, dimensions, query_type, aggregation_type, row_limit, start_row, data_state, filters) ==
    IF parse_ymd(start_date).exc # "none" THEN parse_ymd(start_date)
    ELSE IF parse_ymd(end_date).exc # "none" THEN parse_ymd(end_date)
    ELSE IF validate_date_range(start_date, end_date).exc # "none"
    THEN validate_date_range(start_date, end_date)
    ELSE IF ~RowLimitOk(row_limit)
    THEN Raise("row-limit must be between 1 and 25000.", <<>>)
    ELSE IF aggregation_type \notin ALLOWED_AGGREGATION_TYPES
    THEN Raise("Unsupported aggregation-type", <<aggregation_type>>)
    ELSE IF data_state \notin ALLOWED_DATA_STATES
    THEN Raise("Unsupported data-state", <<data_state>>)
    ELSE IF query_type \notin ALLOWED_TYPES
    THEN Raise("Unsupported type", <<query_type>>)
    ELSE IF ~StartRowOk(start_row)
    THEN Raise("start-row must be >= 0.", <<>>)
    ELSE IF FirstUnsupported(dimensions) # <<>>
    THEN Raise("Unsupported dimension", FirstUnsupported(dimensions))
    ELSE LET parsed == ParseFilters(filters)
         IN  IF parsed.exc # "none" THEN parsed
             ELSE IF PageConflict(aggregation_type, dimensions, parsed.value)
             THEN Raise("aggregation-type=byProperty cannot be used with page dimension or page filter.", <<>>)
             ELSE Ret(RequestBody(start_date, end_date, dimensions, query_type,
                                  aggregation_type, row_limit, start_row, data_state,
                                  parsed.value))

\* analytics.py:90-159
build_query_request(start_date, end_date, dimensions, query_type, aggregation_type, row_limit, start_row, data_state, filters) ==
    IF parse_ymd(start_date).exc # "none" THEN parse_ymd(start_date)
    ELSE IF parse_ymd(end_date).exc # "none" THEN parse_ymd(end_date)
    ELSE IF validate_date_range(start_date, end_date).exc # "none"
    THEN validate_date_range(start_date, end_date)
    ELSE IF query_type \notin ALLOWED_TYPES
    THEN Raise("Unsupported type", <<query_type>>)
    ELSE IF aggregation_type \notin ALLOWED_AGGREGATION_TYPES
    THEN Raise("Unsupported aggregation-type", <<aggregation_type>>)
    ELSE IF data_state \notin ALLOWED_DATA_STATES
    THEN Raise("Unsupported data-state", <<data_state>>)
    ELSE IF ~RowLimitOk(row_limit)
    THEN Raise("row-limit must be between 1 and 25000.", <<>>)
    ELSE IF ~StartRowOk(start_row)
    THEN Raise("start-row must be >= 0.", <<>>)
    ELSE IF FirstUnsupported(dimensions) # <<>>
    THEN Raise("Unsupported dimension", FirstUnsupported(dimensions))
    ELSE LET parsed == ParseFilters(filters)
         IN  IF parsed.exc # "none" THEN parsed
             ELSE IF PageConflict(aggregation_type, dimensions, parsed.value)
             THEN Raise("aggregation-type=byProperty cannot be used with page dimension or page filter.", <<>>)
             ELSE Ret(RequestBody(start_date, end_date, dimensions, query_type,
                                  aggregation_type, row_limit, start_row, data_state,
                                  parsed.value))

(***************************************************************************)
(* rows_to_records, analytics.py:162-180.  A response holds "rows" or not; *)
(* a row holds "keys" or not, and some of the metrics.  A record, a dict   *)
(* of Python, is the sequence of its items in the order of insertion.      *)
(***************************************************************************)
METRICS == <<"clicks", "impressions", "ctr", "position">>

None == [none |-> TRUE]

\* record[key] = val: a key the record holds keeps its place
SetItem(record, key, val) ==
    IF \E i \in 1..Len(record) : record[i][1] = key
    THEN [i \in 1..Len(record) |->
            IF record[i][1] = key THEN <<key, val>> ELSE record[i]]
    ELSE Append(record, <<key, val>>)

\* analytics.py:171-172
RECURSIVE SetDimensions(_, _, _, _)
SetDimensions(record, dimensions, keys, index) ==
    IF index > Len(dimensions) THEN record
    ELSE SetDimensions(SetItem(record, dimensions[index],
                               IF index <= Len(keys) THEN keys[index] ELSE None),
                       dimensions, keys, index + 1)

\* analytics.py:174-176
RECURSIVE SetMetrics(_, _, _)
SetMetrics(record, row, index) ==
    IF index > Len(METRICS) THEN record
    ELSE SetMetrics(IF METRICS[index] \in DOMAIN row.metrics
                    THEN SetItem(record, METRICS[index], row.metrics[METRICS[index]])
                    ELSE record,
                    row, index + 1)

\* analytics.py:167-178, one row
RowToRecord(row, dimensions) ==
    SetMetrics(SetDimensions(<<>>, dimensions,
                             IF row.has_keys THEN row.keys ELSE <<>>, 1),
               row, 1)

\* analytics.py:162-180
rows_to_records(response, dimensions) ==
    LET rows == IF response.has_rows THEN response.rows ELSE <<>>
    IN  [i \in 1..Len(rows) |-> RowToRecord(rows[i], dimensions)]

(***************************************************************************)
(* The query engine as a state machine: each function of analytics.py is   *)
(* applied to inputs drawn from the sets below, and the state keeps the    *)
(* function applied (op), its inputs (arg) and its result (exc, msg,       *)
(* value).  The files and the clock play no part.                          *)
(***************************************************************************)
Dates == {DateText(2025, 12, 31), DateText(2026, 1, 30), DateText(2026, 2, 30)}
DimensionInputs == SeqsUpTo({"page", "query", "bogus"}, MaxDimensions)
TypeInputs == {"web", "bogus"}
AggregationInputs == {"auto", "byProperty", "bogus"}
DataStateInputs == {"final", "bogus"}
RowLimitInputs == {0, 1, MaxRowLimit, MaxRowLimit + 1}
StartRowInputs == {-1, 0}

\* "page:equals:x", "query:contains:brand:term", "query:contains"
FilterInputs ==
    SeqsUpTo({<<"page", ":", "equals", ":", "x">>,
              <<"query", ":", "contains", ":", "brand", ":", "term">>,
              <<"query", ":", "contains">>}, MaxFilters)

\* the texts of n parts joined by the delimiter: a dimension, known or not, or
\* nothing; an operator, known or not, or nothing; then "x" or nothing
PartInputs(k) ==
    {<<>>} \cup
    (IF k = 1 THEN {<<d>> : d \in ALLOWED_DIMENSIONS \cup {"bogus"}}
     ELSE IF k = 2 THEN {<<o>> : o \in ALLOWED_OPERATORS \cup {"like"}}
     ELSE {<<"x">>})

RECURSIVE TextsOfParts(_)
TextsOfParts(n) ==
    IF n = 1 THEN PartInputs(1)
    ELSE {t \o <<":">> \o part : t \in TextsOfParts(n - 1), part \in PartInputs(n)}

FilterTexts == UNION {TextsOfParts(n) : n \in 1..MaxParts}

\* rows: without keys, or with none, one or two; with none, some or all of
\* the metrics
Row(has_keys, keys, metrics) == [has_keys |-> has_keys, keys |-> keys, metrics |-> metrics]

RowInputs ==
    {Row(k[1], k[2], m) :
        k \in {<<FALSE, <<>>>>, <<TRUE, <<>>>>, <<TRUE, <<"a">>>>, <<TRUE, <<"a", "b">>>>},
        m \in {<<>>,
               ("clicks" :> 2),
               ("position" :> 3) @@ ("clicks" :> 2),
               ("clicks" :> 2) @@ ("impressions" :> 20) @@ ("ctr" :> 1) @@ ("position" :> 3)}}

ResponseInputs ==
    {[has_rows |-> FALSE, rows |-> <<>>]}
    \cup {[has_rows |-> TRUE, rows |-> r] : r \in SeqsUpTo(RowInputs, MaxRows)}

RowDimensionInputs ==
    {<<>>, <<"query">>, <<"date", "query">>, <<"query", "query">>,
     <<"query", "date", "page">>}

InitQuery ==
    /\ fs = [p \in Paths |-> Absent]
    /\ now = 0
    /\ op = "none"
    /\ arg = FALSE
    /\ exc = "none"
    /\ msg = NoMsg
    /\ obtained = NoCred
    /\ value = NoValue
    /\ log = <<>>
    /\ fsBefore = fs
    /\ opTime = 0

\* nothing has been applied yet: each behaviour applies one function once
Idle == op = "none"

\* the effect of applying a function of analytics.py
Applied(name, input, r) ==
    /\ op' = name
    /\ arg' = input
    /\ exc' = r.exc
    /\ msg' = r.msg
    /\ value' = r.value
    /\ UNCHANGED <<fs, now, obtained, log, fsBefore, opTime>>

BuildQueryRequest ==
    Idle /\
    \E start_date \in Dates, end_date \in Dates, dimensions \in DimensionInputs,
       query_type \in TypeInputs, aggregation_type \in AggregationInputs,
       row_limit \in RowLimitInputs, start_row \in StartRowInputs,
       data_state \in DataStateInputs, filters \in FilterInputs :
        Applied("build_query_request",
                [start_date |-> start_date, end_date |-> end_date,
                 dimensions |-> dimensions, query_type |-> query_type,
                 aggregation_type |-> aggregation_type, row_limit |-> row_limit,
                 start_row |-> start_row, data_state |-> data_state,
                 filters |-> filters],
                build_query_request(start_date, end_date, dimensions, query_type,
                                    aggregation_type, row_limit, start_row,
                                    data_state, filters))

ParseFilterExpression ==
    Idle /\
    \E filter_expression \in FilterTexts :
        Applied("parse_filter_expression", filter_expression,
                parse_filter_expression(filter_expression))

RowsToRecords ==
    Idle /\
    \E response \in ResponseInputs, dimensions \in RowDimensionInputs :
        Applied("rows_to_records", [response |-> response, dimensions |-> dimensions],
                Ret(rows_to_records(response, dimensions)))

NextQuery == BuildQueryRequest \/ ParseFilterExpression \/ RowsToRecords

SpecQuery == InitQuery /\ [][NextQuery]_vars

(***************************************************************************)
(* What the function applied was given, read from its inputs alone.        *)
(***************************************************************************)
IsBuild == op = "build_query_request"
IsParse == op = "parse_filter_expression"
IsRecords == op = "rows_to_records"

\* a date as the number YYYYMMDD, which orders dates as the calendar does
Ordinal(v) == v.y * 10000 + v.m * 100 + v.d

\* the filter-eligible dimensions and the six operators of the data model
FilterEligible == ALLOWED_DIMENSIONS \ {"date", "hour"}
SixOperators == {"contains", "equals", "notContains", "notEquals",
                 "includingRegex", "excludingRegex"}

\* a text d:o:e of an eligible dimension, an operator and a text e that is
\* not empty
WellFormed(t) ==
    /\ Len(t) >= 5
    /\ t[1] \in FilterEligible
    /\ t[2] = ":"
    /\ t[3] \in SixOperators
    /\ t[4] = ":"

\* the filter that d:o:e stands for
Triple(t) == Filter(t[1], t[3], SubSeq(t, 5, Len(t)))

DatesAreDays == IsDate(arg.start_date) /\ IsDate(arg.end_date)
DatesOk == DatesAreDays /\ Ordinal(arg.start_date) <= Ordinal(arg.end_date)
EnumsOk ==
    /\ arg.query_type \in ALLOWED_TYPES
    /\ arg.aggregation_type \in ALLOWED_AGGREGATION_TYPES
    /\ arg.data_state \in ALLOWED_DATA_STATES
NumbersOk == arg.row_limit \in 1..25000 /\ arg.start_row >= 0
DimensionsOk == \A i \in 1..Len(arg.dimensions) : arg.dimensions[i] \in ALLOWED_DIMENSIONS
FiltersOk == \A i \in 1..Len(arg.filters) : WellFormed(arg.filters[i])
PageDimension == \E i \in 1..Len(arg.dimensions) : arg.dimensions[i] = "page"
PageFilter == \E i \in 1..Len(arg.filters) : arg.filters[i][1] = "page"
NoConflict == ~(arg.aggregation_type = "byProperty" /\ (PageDimension \/ PageFilter))
ByPropertyMessage ==
    "aggregation-type=byProperty cannot be used with page dimension or page filter."

\* the keys of a body, and what a body says about pages
HasKey(body, key) == key \in DOMAIN body
BodyUsesPage(body) ==
    \/ HasKey(body, "dimensions")
       /\ \E i \in 1..Len(body["dimensions"]) : body["dimensions"][i] = "page"
    \/ HasKey(body, "dimensionFilterGroups")
       /\ \E g \in 1..Len(body["dimensionFilterGroups"]) :
             \E i \in 1..Len(body["dimensionFilterGroups"][g].filters) :
                 body["dimensionFilterGroups"][g].filters[i].dimension = "page"

(***************************************************************************)
(* C11.  With aggregation_type byProperty, allowed dimensions and all else *)
(* valid, build_query_request fails with ValidationError if and only if    *)
(* "page" is among the dimensions or some filter has the dimension "page"; *)
(* and no body it returns has aggregationType byProperty together with a   *)
(* page dimension or a page filter.                                        *)
(***************************************************************************)
C11_ByPropertyExcludesPage ==
    IsBuild =>
        /\ (/\ DatesOk /\ EnumsOk /\ NumbersOk /\ DimensionsOk /\ FiltersOk
            /\ arg.aggregation_type = "byProperty")
           => IF PageDimension \/ PageFilter
              THEN exc = "ValidationError" /\ msg.kind = ByPropertyMessage
              ELSE exc = "none"
        /\ exc = "none"
           => ~(value["aggregationType"] = "byProperty" /\ BodyUsesPage(value))

C11_Witness ==
    /\ IsBuild /\ DatesOk /\ EnumsOk /\ NumbersOk /\ DimensionsOk /\ FiltersOk
    /\ arg.aggregation_type = "byProperty"
    /\ ~PageDimension /\ PageFilter
    /\ exc = "ValidationError"

(***************************************************************************)
(* C12.  For two dates of the calendar and all else valid,                 *)
(* build_query_request fails with the ordering error if and only if the    *)
(* start is after the end; an equal or an earlier start succeeds.          *)
(***************************************************************************)
C12_DateOrder ==
    (IsBuild /\ DatesAreDays /\ EnumsOk /\ NumbersOk /\ DimensionsOk /\ FiltersOk
     /\ NoConflict)
    => IF Ordinal(arg.start_date) > Ordinal(arg.end_date)
       THEN exc = "ValidationError" /\ msg.kind = "start-date must be <= end-date."
       ELSE exc = "none"

\* the start is after the end although its day of the month is the smaller
C12_Witness ==
    /\ IsBuild /\ DatesAreDays /\ EnumsOk /\ NumbersOk /\ DimensionsOk /\ FiltersOk
    /\ NoConflict
    /\ Ordinal(arg.start_date) > Ordinal(arg.end_date)
    /\ arg.start_date.d < arg.end_date.d
    /\ exc = "ValidationError"

(***************************************************************************)
(* C13.  parse_filter_expression splits at the first two delimiters only:  *)
(* the text d:o:e of an eligible dimension d, an allowed operator o and a  *)
(* non-empty e parses to exactly (d, o, e), every later delimiter being    *)
(* kept in the expression.                                                 *)
(***************************************************************************)
C13_SplitsAtMostTwice ==
    (IsParse /\ WellFormed(arg)) => exc = "none" /\ value = Triple(arg)

C13_Witness ==
    /\ IsParse /\ WellFormed(arg)
    /\ \E i \in 5..Len(arg) : arg[i] = ":"
    /\ exc = "none"

(***************************************************************************)
(* C14.  parse_filter_expression rejects with ValidationError a text with  *)
(* fewer than two delimiters (format), else one whose dimension is not     *)
(* filter-eligible, else one whose operator is not one of the six, else    *)
(* one whose expression is empty, in that order, and accepts every other   *)
(* text.                                                                   *)
(***************************************************************************)
Delimiters(t) == {i \in 1..Len(t) : t[i] = ":"}
FirstDelimiter(t) == CHOOSE i \in Delimiters(t) : \A j \in Delimiters(t) : i <= j
SecondDelimiter(t) ==
    CHOOSE i \in Delimiters(t) \ {FirstDelimiter(t)} :
        \A j \in Delimiters(t) \ {FirstDelimiter(t)} : i <= j

\* the verdict the rules give, from the text alone
Verdict(t) ==
    IF Cardinality(Delimiters(t)) < 2 THEN "Invalid --filter format"
    ELSE IF SubSeq(t, 1, FirstDelimiter(t) - 1) \notin {<<d>> : d \in FilterEligible}
    THEN "Unsupported filter dimension"
    ELSE IF SubSeq(t, FirstDelimiter(t) + 1, SecondDelimiter(t) - 1)
            \notin {<<o>> : o \in SixOperators}
    THEN "Unsupported filter operator"
    ELSE IF SecondDelimiter(t) = Len(t) THEN "Filter expression cannot be empty."
    ELSE "accepted"

C14_RejectsInOrder ==
    IsParse =>
        IF Verdict(arg) = "accepted"
        THEN exc = "none"
        ELSE exc = "ValidationError" /\ msg.kind = Verdict(arg)

\* neither the dimension nor the operator is allowed: the dimension is reported
C14_Witness ==
    /\ IsParse
    /\ Cardinality(Delimiters(arg)) >= 2
    /\ SubSeq(arg, 1, FirstDelimiter(arg) - 1) \notin {<<d>> : d \in FilterEligible}
    /\ SubSeq(arg, FirstDelimiter(arg) + 1, SecondDelimiter(arg) - 1)
          \notin {<<o>> : o \in SixOperators}
    /\ msg.kind = "Unsupported filter dimension"

(***************************************************************************)
(* C15.  With all else valid, build_query_request accepts row_limit n if   *)
(* and only if 1 <= n <= 25000 and start_row s if and only if s >= 0.      *)
(***************************************************************************)
C15_RowBounds ==
    (IsBuild /\ DatesOk /\ EnumsOk /\ DimensionsOk /\ FiltersOk /\ NoConflict)
    => /\ exc = "none" <=> (1 <= arg.row_limit /\ arg.row_limit <= 25000
                            /\ arg.start_row >= 0)
       /\ arg.row_limit \in {0, 25001} => exc = "ValidationError"
       /\ arg.start_row = -1 => exc = "ValidationError"
       /\ (arg.row_limit \in {1, 25000} /\ arg.start_row = 0) => exc = "none"

C15_Witness ==
    /\ IsBuild /\ DatesOk /\ EnumsOk /\ DimensionsOk /\ FiltersOk /\ NoConflict
    /\ arg.row_limit = 25000 /\ arg.start_row = 0
    /\ exc = "none"

(***************************************************************************)
(* C16.  A body returned by build_query_request holds startDate, endDate,  *)
(* type, aggregationType, rowLimit, startRow and dataState equal to the    *)
(* inputs; "dimensions" if and only if dimensions were given, equal to     *)
(* them in their order; "dimensionFilterGroups" if and only if a filter    *)
(* was given, as one group of groupType "and" with the parsed filters in   *)
(* the order given; and never an empty list under either key.              *)
(***************************************************************************)
FixedKeys == {"startDate", "endDate", "type", "aggregationType", "rowLimit",
              "startRow", "dataState"}

C16_BodyShape ==
    (IsBuild /\ exc = "none") =>
        /\ FixedKeys \subseteq DOMAIN value
        /\ DOMAIN value \subseteq FixedKeys \cup {"dimensions", "dimensionFilterGroups"}
        /\ value["startDate"] = arg.start_date
        /\ value["endDate"] = arg.end_date
        /\ value["type"] = arg.query_type
        /\ value["aggregationType"] = arg.aggregation_type
        /\ value["rowLimit"] = arg.row_limit
        /\ value["startRow"] = arg.start_row
        /\ value["dataState"] = arg.data_state
        /\ HasKey(value, "dimensions") <=> arg.dimensions # <<>>
        /\ HasKey(value, "dimensions") => value["dimensions"] = arg.dimensions
        /\ HasKey(value, "dimensionFilterGroups") <=> arg.filters # <<>>
        /\ HasKey(value, "dimensionFilterGroups") =>
              /\ Len(value["dimensionFilterGroups"]) = 1
              /\ value["dimensionFilterGroups"][1].groupType = "and"
              /\ value["dimensionFilterGroups"][1].filters
                    = [i \in 1..Len(arg.filters) |-> Triple(arg.filters[i])]

C16_Witness ==
    /\ IsBuild /\ exc = "none"
    /\ arg.dimensions = <<>> /\ arg.filters = <<>>
    /\ ~HasKey(value, "dimensions") /\ ~HasKey(value, "dimensionFilterGroups")

(***************************************************************************)
(* C17.  A request that build_query_request returns satisfies the          *)
(* invariants of the data model: its dimensions are pairwise distinct      *)
(* names of the dimension enumeration, its start date is not after its end *)
(* date, type, aggregationType and dataState are members of their          *)
(* enumerations, rowLimit is in 1..25000 and startRow is not negative.     *)
(***************************************************************************)
BodyDimensions(body) == IF HasKey(body, "dimensions") THEN body["dimensions"] ELSE <<>>
PairwiseDistinct(s) == \A i, j \in 1..Len(s) : i # j => s[i] # s[j]

C17_RequestInvariants ==
    (IsBuild /\ exc = "none") =>
        /\ PairwiseDistinct(BodyDimensions(value))
        /\ \A i \in 1..Len(BodyDimensions(value)) :
              BodyDimensions(value)[i] \in ALLOWED_DIMENSIONS
        /\ Ordinal(value["startDate"]) <= Ordinal(value["endDate"])
        /\ value["type"] \in ALLOWED_TYPES
        /\ value["aggregationType"] \in ALLOWED_AGGREGATION_TYPES
        /\ value["dataState"] \in ALLOWED_DATA_STATES
        /\ value["rowLimit"] \in 1..25000
        /\ value["startRow"] >= 0

(***************************************************************************)
(* C18.  rows_to_records returns one record for each row of the response,  *)
(* in the order of the rows, and none when "rows" is absent; a record maps *)
(* dimensions[i] to keys[i] when the row has a key at i and to None when   *)
(* it has not, never raising; it then holds those of clicks, impressions,  *)
(* ctr and position that the row holds, unchanged; its fields are the      *)
(* dimensions in the order of the request, then the metrics in that order. *)
(***************************************************************************)
FourMetrics == <<"clicks", "impressions", "ctr", "position">>

KeyAt(row, i) == IF row.has_keys /\ i <= Len(row.keys) THEN row.keys[i] ELSE None

ExpectedRecord(row, dimensions) ==
    [i \in 1..Len(dimensions) |-> <<dimensions[i], KeyAt(row, i)>>]
    \o LET held == SelectSeq(FourMetrics, LAMBDA m : m \in DOMAIN row.metrics)
       IN  [i \in 1..Len(held) |-> <<held[i], row.metrics[held[i]]>>]

RowsOf(response) == IF response.has_rows THEN response.rows ELSE <<>>

C18_OneRecordPerRow ==
    IsRecords =>
        /\ exc = "none"
        /\ Len(value) = Len(RowsOf(arg.response))
        /\ \A r \in 1..Len(value) :
              value[r] = ExpectedRecord(RowsOf(arg.response)[r], arg.dimensions)

\* the same with the dimensions pairwise distinct
C18_DistinctDimensions ==
    (IsRecords /\ PairwiseDistinct(arg.dimensions)) => C18_OneRecordPerRow

(***************************************************************************)
(* The commands (src/gsc_cli/cli.py), with config.py and client.py.        *)
(*                                                                         *)
(* An option that may be left out is [t |-> "none"] or a text; a text is   *)
(* the sequence of its pieces, as above.                                   *)
(***************************************************************************)
\* cli.py:28-30
USER_INPUT_EXIT_CODE == 2
AUTH_EXIT_CODE == 3
API_EXIT_CODE == 4
\* the status of a process that ends with an exception nobody caught, and
\* of one that ends well
UNCAUGHT_EXIT_CODE == 1
OK_EXIT_CODE == 0

\* paths.py:23-27
app_config_file == other_file

Omitted == [t |-> "none", v |-> <<>>]
Str(text) == [t |-> "str", v |-> text]

\* str.strip()
RECURSIVE Strip(_)
Strip(text) ==
    IF text = <<>> THEN text
    ELSE IF Head(text) = " " THEN Strip(Tail(text))
    ELSE IF text[Len(text)] = " " THEN Strip(SubSeq(text, 1, Len(text) - 1))
    ELSE text

\* the config file as a JSON object: its "default_site" member, which is
\* missing, a number or a string
ConfigDoc(default_site) == [kind |-> "config", default_site |-> default_site]

EvConfig == Ev("config", app_config_file, <<>>)
\* a call of the remote API: the method, and the site it is made for
EvApi(method, site) == Ev("api", method, site)
\* a call of load_credentials: the scope it requires
EvLoad(write) == Ev("load_credentials", NoPath, <<IF write THEN WRITE_SCOPE ELSE READ_SCOPE>>)

\* the classes an exception is an instance of
Classes(e) ==
    CASE e = "ValidationError" -> {"ValidationError", "ValueError", "Exception"}
      [] e = "ValueError" -> {"ValueError", "Exception"}
      [] e = "ConfigError" -> {"ConfigError", "RuntimeError", "Exception"}
      [] e = "AuthError" -> {"AuthError", "RuntimeError", "Exception"}
      [] e = "HttpError" -> {"HttpError", "Exception"}
      [] OTHER -> {e, "Exception"}

\* command_errors whose first clause catches every RuntimeError
command_errors_runtime(e) ==
    IF e = "none" THEN OK_EXIT_CODE
    ELSE IF Classes(e) \cap {"ValidationError", "ValueError", "RuntimeError"} # {}
    THEN USER_INPUT_EXIT_CODE
    ELSE IF "AuthError" \in Classes(e) THEN AUTH_EXIT_CODE
    ELSE IF "HttpError" \in Classes(e) THEN API_EXIT_CODE
    ELSE UNCAUGHT_EXIT_CODE

\* cli.py:39-55: the exit status for what the command raised
command_errors(e) ==
    IF e = "none" THEN OK_EXIT_CODE
    ELSE IF Classes(e) \cap {"ValidationError", "ValueError", "ConfigError"} # {}
    THEN USER_INPUT_EXIT_CODE
    ELSE IF "AuthError" \in Classes(e) THEN AUTH_EXIT_CODE
    ELSE IF "HttpError" \in Classes(e) THEN API_EXIT_CODE
    ELSE UNCAUGHT_EXIT_CODE

\* config.py:15-23
load_config(files) ==
    LET doc == files[app_config_file]
    IN  IF doc = Absent
        THEN Run("none", NoMsg, NoCred, ConfigDoc(Omitted), <<EvConfig>>, files)
        ELSE IF doc.kind = "badjson"
        THEN Run("ConfigError", VMsg("Config file is not valid JSON", <<>>),
                 NoCred, NoValue, <<EvConfig>>, files)
        ELSE Run("none", NoMsg, NoCred, doc, <<EvConfig>>, files)

\* config.py:42-47
get_default_site(files) ==
    LET config == load_config(files)
    IN  IF config.exc # "none" THEN config
        ELSE IF config.value.kind # "config"
        THEN \* .get of a JSON value that is not an object
             Run("AttributeError", NoMsg, NoCred, NoValue, config.log, files)
        ELSE IF config.value.default_site.t # "str"
        THEN Run("none", NoMsg, NoCred, Omitted, config.log, files)
        ELSE IF Strip(config.value.default_site.v) = <<>>
        THEN Run("none", NoMsg, NoCred, Omitted, config.log, files)
        ELSE Run("none", NoMsg, NoCred, Str(Strip(config.value.default_site.v)),
                 config.log, files)

\* config.py:33-39, with save_config, config.py:26-30
set_default_site(site_url, files) ==
    IF Strip(site_url) = <<>>
    THEN Run("ConfigError", VMsg("default-site cannot be empty", <<>>),
             NoCred, NoValue, <<>>, files)
    ELSE LET config == load_config(files)
         IN  IF config.exc # "none" THEN config
             ELSE IF config.value.kind # "config"
             THEN \* item assignment to a JSON value that is not an object
                  Run("TypeError", NoMsg, NoCred, NoValue, config.log, files)
             ELSE Run("none", NoMsg, NoCred, app_config_file,
                      Append(config.log, EvWrite(app_config_file)),
                      [files EXCEPT ![app_config_file] = ConfigDoc(Str(Strip(site_url)))])

\* _resolve_site that prefers the stored default to the option
_resolve_site_default(site_url, files) ==
    LET default_site == get_default_site(files)
    IN  IF default_site.exc # "none" THEN default_site
        ELSE IF default_site.value # Omitted THEN default_site
        ELSE IF site_url.t = "str" /\ site_url.v # <<>>
        THEN Run("none", NoMsg, NoCred, site_url, default_site.log, files)
        ELSE Run("ValidationError", VMsg("No site specified", <<>>),
                 NoCred, NoValue, default_site.log, files)

\* cli.py:77-88
_resolve_site(site_url, files) ==
    IF site_url.t = "str" /\ site_url.v # <<>>
    THEN Run("none", NoMsg, NoCred, site_url, <<>>, files)
    ELSE LET default_site == get_default_site(files)
         IN  IF default_site.exc # "none" THEN default_site
             ELSE IF default_site.value # Omitted THEN default_site
             ELSE Run("ValidationError", VMsg("No site specified", <<>>),
                      NoCred, NoValue, default_site.log, files)

\* client.py:10-18
build_search_console_service(write, adc, ro, files, t) ==
    LET credentials == load_credentials(write, adc, ro, files, t)
    IN  [credentials EXCEPT !.log = <<EvLoad(write)>> \o @]

\* service.<resource>().<method>(...).execute(): the answer, or HttpError
execute(method, site, api, service, l) ==
    IF api.exc # "none"
    THEN Run("HttpError", NoMsg, service.obtained, NoValue,
             l \o service.log \o <<EvApi(method, site)>>, service.fs)
    ELSE Run("none", NoMsg, service.obtained, api.response,
             l \o service.log \o <<EvApi(method, site)>>, service.fs)

\* a command after the site is resolved: the service, then the call
Call(method, site, write, adc, ro, api, l, files, t) ==
    LET service == build_search_console_service(write, adc, ro, files, t)
    IN  IF service.exc # "none"
        THEN Run(service.exc, service.msg, service.obtained, NoValue,
                 l \o service.log, service.fs)
        ELSE execute(method, site, api, service, l)

\* a command that resolves the site, builds the service and makes one call
SiteCommand(method, site_url, write, adc, ro, api, files, t) ==
    LET resolved_site == _resolve_site(site_url, files)
    IN  IF resolved_site.exc # "none" THEN resolved_site
        ELSE Call(method, resolved_site.value.v, write, adc, ro, api,
                  resolved_site.log, files, t)

\* cli.py:371-385
site_list(adc, ro, api, files, t) ==
    Call("sites.list", <<>>, FALSE, adc, ro, api, <<>>, files, t)

\* cli.py:393-399
site_get(site_url, adc, ro, api, files, t) ==
    SiteCommand("sites.get", site_url, FALSE, adc, ro, api, files, t)

\* site add that asks for the read-only scope
site_add_readonly(site_url, adc, ro, api, files, t) ==
    SiteCommand("sites.add", site_url, FALSE, adc, ro, api, files, t)

\* cli.py:405-410
site_add(site_url, adc, ro, api, files, t) ==
    SiteCommand("sites.add", site_url, TRUE, adc, ro, api, files, t)

\* cli.py:428-448
sitemap_list(site_url, adc, ro, api, files, t) ==
    SiteCommand("sitemaps.list", site_url, FALSE, adc, ro, api, files, t)

\* cli.py:463-469
sitemap_get(site_url, adc, ro, api, files, t) ==
    SiteCommand("sitemaps.get", site_url, FALSE, adc, ro, api, files, t)

\* cli.py:482-487
sitemap_submit(site_url, adc, ro, api, files, t) ==
    SiteCommand("sitemaps.submit", site_url, TRUE, adc, ro, api, files, t)

\* cli.py:500-505
sitemap_delete(site_url, adc, ro, api, files, t) ==
    SiteCommand("sitemaps.delete", site_url, TRUE, adc, ro, api, files, t)

\* cli.py:530-563
url_inspect(site_url, adc, ro, api, files, t) ==
    SiteCommand("urlInspection.index.inspect", site_url, FALSE, adc, ro, api, files, t)

\* analytics_query that builds the service before the request
analytics_query_eager(site_url, query, adc, ro, api, files, t) ==
    LET resolved_site == _resolve_site(site_url, files)
        service == build_search_console_service(FALSE, adc, ro, files, t)
        request_body ==
            build_query_request(query.start_date, query.end_date, query.dimensions,
                                query.query_type, query.aggregation_type,
                                query.row_limit, query.start_row, query.data_state,
                                query.filters)
        response == execute("searchanalytics.query", resolved_site.value.v, api,
                            service, resolved_site.log)
    IN  IF resolved_site.exc # "none" THEN resolved_site
        ELSE IF service.exc # "none"
        THEN Run(service.exc, service.msg, service.obtained, NoValue,
                 resolved_site.log \o service.log, service.fs)
        ELSE IF request_body.exc # "none"
        THEN Run(request_body.exc, request_body.msg, service.obtained, NoValue,
                 resolved_site.log \o service.log, service.fs)
        ELSE IF response.exc # "none" THEN response
        ELSE Run("none", NoMsg, response.obtained,
                 rows_to_records(response.value, query.dimensions),
                 response.log, response.fs)

\* cli.py:594-626
analytics_query(site_url, query, adc, ro, api, files, t) ==
    LET resolved_site == _resolve_site(site_url, files)
        request_body ==
            build_query_request(query.start_date, query.end_date, query.dimensions,
                                query.query_type, query.aggregation_type,
                                query.row_limit, query.start_row, query.data_state,
                                query.filters)
        response == Call("searchanalytics.query", resolved_site.value.v, FALSE,
                         adc, ro, api, resolved_site.log, files, t)
    IN  IF resolved_site.exc # "none" THEN resolved_site
        ELSE IF request_body.exc # "none"
        THEN Run(request_body.exc, request_body.msg, NoCred, NoValue,
                 resolved_site.log, files)
        ELSE IF response.exc # "none" THEN response
        ELSE Run("none", NoMsg, response.obtained,
                 rows_to_records(response.value, query.dimensions),
                 response.log, response.fs)

\* cli.py:191-198
auth_login(readonly, flow, files, t) ==
    login_with_client_secret(~readonly, flow, files, t)

\* cli.py:204-218
auth_whoami(files) ==
    LET info == stored_credentials_info(files)
    IN  IF info.exc = "none" /\ info.value = NoInfo
        THEN Run("ValidationError", VMsg("No local OAuth credentials found", <<>>),
                 NoCred, NoValue, info.log, files)
        ELSE info

\* cli.py:234-238
config_set_default_site(site_url, files) == set_default_site(site_url, files)

\* cli.py:248-253
config_get_default_site(files) ==
    LET site_url == get_default_site(files)
    IN  IF site_url.exc = "none" /\ site_url.value = Omitted
        THEN Run("ValidationError", VMsg("default-site is not set.", <<>>),
                 NoCred, NoValue, site_url.log, files)
        ELSE site_url

\* cli.py:359
DOCTOR_FAILURE_EXIT_CODE == 1

\* a row of doctor's table
Check(check, status) == [check |-> check, status |-> status]

\* what doctor has got to: its rows, its count of failures
Report(checks, failures) == [checks |-> checks, failures |-> failures]

\* cli.py:287-315: the rows of the stored-credentials check, which catches
\* AuthError only; info is what stored_credentials_info returned or raised
StoredCredentials(report, info) ==
    IF info.exc = "AuthError"
    THEN \* the row of the except clause, and info is None still
         Report(report.checks \o <<Check("stored-credentials", "fail"),
                                   Check("stored-credentials", "warn")>>,
                report.failures + 1)
    ELSE IF info.value = NoInfo
    THEN Report(Append(report.checks, Check("stored-credentials", "warn")),
                report.failures)
    ELSE Report(Append(report.checks, Check("stored-credentials", "ok")),
                report.failures)

\* cli.py:317-334: the row of the check of load_credentials, which catches
\* AuthError only; loaded is what load_credentials(write=False) gave
AuthRefresh(report, loaded) ==
    IF loaded.exc = "none"
    THEN Report(Append(report.checks, Check("auth-refresh", "ok")), report.failures)
    ELSE Report(Append(report.checks, Check("auth-refresh", "fail")),
                report.failures + 1)

\* cli.py:336-355: the row of the last check, which catches every exception
\* of the service and of the call
ApiConnectivity(report, service, response) ==
    IF service.exc # "none" \/ response.exc # "none"
    THEN Report(Append(report.checks, Check("api-connectivity", "fail")),
                report.failures + 1)
    ELSE Report(Append(report.checks, Check("api-connectivity", "ok")),
                report.failures)

\* cli.py:256-359, from what its calls gave: default_site is get_default_site()
\* (line 278), info stored_credentials_info() (288), loaded load_credentials
\* (318), service build_search_console_service (337), response the answer to
\* sites().list() (338).  The value is the report; an exception is one that
\* no clause of doctor catches, and the calls after it are not made.
doctor(default_site, info, loaded, service, response) ==
    LET checks == <<Check("python", "ok"), Check("config-path", "ok")>>
        site_checked ==
            Report(Append(checks,
                          Check("default-site",
                                IF default_site.value # Omitted THEN "ok" ELSE "warn")),
                   0)
        stored_checked == StoredCredentials(site_checked, info)
        auth_checked == AuthRefresh(stored_checked, loaded)
    IN  IF default_site.exc # "none"
        THEN Run(default_site.exc, default_site.msg, NoCred, Report(checks, 0),
                 default_site.log, default_site.fs)
        ELSE IF info.exc \notin {"none", "AuthError"}
        THEN Run(info.exc, info.msg, NoCred, site_checked,
                 default_site.log \o info.log, info.fs)
        ELSE IF loaded.exc \notin {"none", "AuthError"}
        THEN Run(loaded.exc, loaded.msg, loaded.obtained, stored_checked,
                 default_site.log \o info.log \o <<EvLoad(FALSE)>> \o loaded.log,
                 loaded.fs)
        ELSE Run("none", NoMsg, service.obtained,
                 ApiConnectivity(auth_checked, service, response),
                 IF service.exc # "none"
                 THEN default_site.log \o info.log \o <<EvLoad(FALSE)>> \o loaded.log
                      \o service.log
                 ELSE response.log,
                 service.fs)

(***************************************************************************)
(* The commands as a state machine.  A command runs in a process of its    *)
(* own: it starts when no command is running (op = "none"), and the state  *)
(* keeps what it was given, what it raised (exc, msg), the status the      *)
(* process ended with (value), its calls (log) and the files; Exit ends    *)
(* the process, after which the next command finds the files as they are.  *)
(***************************************************************************)
\* the credential files a command may find
CliCredentialFiles ==
    {f \in InitialFiles :
        \/ f.kind # "object"
        \/ /\ f.refresh_token = "r" /\ f.client_id = "abc" /\ f.token = "t0"
           /\ f.expiry \in {At(0), At(1)}
           /\ f.scopes.t \in {"list", "number"} /\ Len(f.scopes.v) <= 1}

\* the config files a command may find
CliConfigFiles ==
    {Absent, [kind |-> "badjson"], [kind |-> "nonobject"], ConfigDoc(Omitted),
     ConfigDoc([t |-> "number", v |-> <<>>])}
    \cup {ConfigDoc(Str(text)) : text \in {<<>>, <<" ">>, <<" ", "site", " ">>}}

\* --site: left out, empty, or a site
SiteInputs == {Omitted, Str(<<>>), Str(<<"site">>)}

\* the argument of config set default-site
DefaultSiteInputs == {<<>>, <<" ">>, <<"site">>, <<" ", "site", " ">>}

\* the options of analytics query that click lets through: the enumerations
\* and the ranges are checked by click, the dates and the filters are not
Query(start_date, end_date, dimensions, aggregation_type, filters) ==
    [start_date |-> start_date, end_date |-> end_date, dimensions |-> dimensions,
     query_type |-> "web", aggregation_type |-> aggregation_type, row_limit |-> 1000,
     start_row |-> 0, data_state |-> "final", filters |-> filters]

QueryInputs ==
    {Query(DateText(2025, 12, 31), DateText(2026, 1, 30), <<"query">>, "auto", <<>>),
     Query(DateText(2026, 2, 30), DateText(2026, 1, 30), <<>>, "auto", <<>>),
     Query(DateText(2026, 1, 30), DateText(2025, 12, 31), <<>>, "auto", <<>>),
     Query(DateText(2026, 1, 30), DateText(2026, 1, 30), <<"page">>, "byProperty", <<>>),
     Query(DateText(2026, 1, 30), DateText(2026, 1, 30), <<>>, "auto",
           <<<<"query", ":", "contains">>>>),
     Query(DateText(2026, 1, 30), DateText(2026, 1, 30), <<"query", "query">>, "auto",
           <<<<"page", ":", "equals", ":", "x">>>>)}

\* what the remote API answers
ApiOutcomes ==
    {[exc |-> "HttpError", response |-> NoValue],
     [exc |-> "none", response |-> [has_rows |-> FALSE, rows |-> <<>>]],
     [exc |-> "none",
      response |-> [has_rows |-> TRUE,
                    rows |-> <<Row(TRUE, <<"a">>, ("clicks" :> 2))>>]]}

InitCli ==
    /\ fs \in {[p \in Paths |-> IF p = credentials_file THEN f ELSE c] :
                 f \in CliCredentialFiles, c \in CliConfigFiles}
    /\ now = 0
    /\ op = "none"
    /\ arg = FALSE
    /\ exc = "none"
    /\ msg = NoMsg
    /\ obtained = NoCred
    /\ value = NoValue
    /\ log = <<>>
    /\ fsBefore = fs
    /\ opTime = 0

\* the end of a command wrapped by command_errors: the status of the process
Exits(name, input, r) ==
    /\ op' = name
    /\ arg' = input
    /\ exc' = r.exc
    /\ msg' = r.msg
    /\ obtained' = r.obtained
    /\ value' = [status |-> command_errors(r.exc), out |-> r.value]
    /\ log' = r.log
    /\ fs' = r.fs
    /\ fsBefore' = fs
    /\ opTime' = now
    /\ UNCHANGED now

SiteList ==
    Idle /\
    \E adc \in AdcOutcomes(<<READ_SCOPE>>, now), ro \in RefreshOutcomes, api \in ApiOutcomes :
        Exits("site list", Omitted, site_list(adc, ro, api, fs, now))

SiteGet ==
    Idle /\
    \E site_url \in SiteInputs, adc \in AdcOutcomes(<<READ_SCOPE>>, now),
       ro \in RefreshOutcomes, api \in ApiOutcomes :
        Exits("site get", site_url, site_get(site_url, adc, ro, api, fs, now))

SiteAdd ==
    Idle /\
    \E site_url \in SiteInputs, adc \in AdcOutcomes(<<WRITE_SCOPE>>, now),
       ro \in RefreshOutcomes, api \in ApiOutcomes :
        Exits("site add", site_url, site_add(site_url, adc, ro, api, fs, now))

SitemapList ==
    Idle /\
    \E site_url \in SiteInputs, adc \in AdcOutcomes(<<READ_SCOPE>>, now),
       ro \in RefreshOutcomes, api \in ApiOutcomes :
        Exits("sitemap list", site_url, sitemap_list(site_url, adc, ro, api, fs, now))

SitemapGet ==
    Idle /\
    \E site_url \in SiteInputs, adc \in AdcOutcomes(<<READ_SCOPE>>, now),
       ro \in RefreshOutcomes, api \in ApiOutcomes :
        Exits("sitemap get", site_url, sitemap_get(site_url, adc, ro, api, fs, now))

SitemapSubmit ==
    Idle /\
    \E site_url \in SiteInputs, adc \in AdcOutcomes(<<WRITE_SCOPE>>, now),
       ro \in RefreshOutcomes, api \in ApiOutcomes :
        Exits("sitemap submit", site_url, sitemap_submit(site_url, adc, ro, api, fs, now))

SitemapDelete ==
    Idle /\
    \E site_url \in SiteInputs, adc \in AdcOutcomes(<<WRITE_SCOPE>>, now),
       ro \in RefreshOutcomes, api \in ApiOutcomes :
        Exits("sitemap delete", site_url, sitemap_delete(site_url, adc, ro, api, fs, now))

UrlInspect ==
    Idle /\
    \E site_url \in SiteInputs, adc \in AdcOutcomes(<<READ_SCOPE>>, now),
       ro \in RefreshOutcomes, api \in ApiOutcomes :
        Exits("url inspect", site_url, url_inspect(site_url, adc, ro, api, fs, now))

AnalyticsQuery ==
    Idle /\
    \E site_url \in SiteInputs, query \in QueryInputs,
       adc \in AdcOutcomes(<<READ_SCOPE>>, now), ro \in RefreshOutcomes,
       api \in ApiOutcomes :
        Exits("analytics query", [site_url |-> site_url, query |-> query],
              analytics_query(site_url, query, adc, ro, api, fs, now))

AuthLogin ==
    Idle /\
    \E readonly \in BOOLEAN, flow \in FlowOutcomes :
        Exits("auth login", readonly, auth_login(readonly, flow, fs, now))

AuthWhoami ==
    Idle /\ Exits("auth whoami", Omitted, auth_whoami(fs))

ConfigSetDefaultSite ==
    Idle /\
    \E site_url \in DefaultSiteInputs :
        Exits("config set default-site", site_url, config_set_default_site(site_url, fs))

ConfigGetDefaultSite ==
    Idle /\ Exits("config get default-site", Omitted, config_get_default_site(fs))

\* the end of doctor, cli.py:357-359: its table, and status 1 when a check
\* failed; an exception it does not catch ends the process
DoctorExits(r) ==
    /\ op' = "doctor"
    /\ arg' = Omitted
    /\ exc' = r.exc
    /\ msg' = r.msg
    /\ obtained' = r.obtained
    /\ value' = [status |-> IF r.exc # "none" THEN UNCAUGHT_EXIT_CODE
                            ELSE IF r.value.failures # 0 THEN DOCTOR_FAILURE_EXIT_CODE
                            ELSE OK_EXIT_CODE,
                 out |-> IF r.exc # "none" THEN <<>> ELSE r.value.checks,
                 failures |-> r.value.failures]
    /\ log' = r.log
    /\ fs' = r.fs
    /\ fsBefore' = fs
    /\ opTime' = now
    /\ UNCHANGED now

Doctor ==
    Idle /\
    \E adc \in AdcOutcomes(<<READ_SCOPE>>, now), ro1 \in RefreshOutcomes,
       ro2 \in RefreshOutcomes, api \in ApiOutcomes :
        \E default_site \in {get_default_site(fs)}, info \in {stored_credentials_info(fs)},
           loaded \in {load_credentials(FALSE, adc, ro1, fs, now)} :
            \E service \in {build_search_console_service(FALSE, adc, ro2, loaded.fs, now)} :
                \E response \in {execute("sites.list", <<>>, api, service,
                                         default_site.log \o info.log
                                         \o <<EvLoad(FALSE)>> \o loaded.log)} :
                    \E r \in {doctor(default_site, info, loaded, service, response)} :
                        DoctorExits(r)

\* the process ends; the files stay
Exit ==
    /\ ~Idle
    /\ op' = "none"
    /\ arg' = FALSE
    /\ exc' = "none"
    /\ msg' = NoMsg
    /\ obtained' = NoCred
    /\ value' = NoValue
    /\ log' = <<>>
    /\ fsBefore' = fs
    /\ opTime' = 0
    /\ UNCHANGED <<fs, now>>

NextCli ==
    \/ SiteList \/ SiteGet \/ SiteAdd
    \/ SitemapList \/ SitemapGet \/ SitemapSubmit \/ SitemapDelete
    \/ UrlInspect \/ AnalyticsQuery
    \/ AuthLogin \/ AuthWhoami
    \/ ConfigSetDefaultSite \/ ConfigGetDefaultSite
    \/ Doctor
    \/ Exit

SpecCli == InitCli /\ [][NextCli]_vars

(***************************************************************************)
(* What the command that ran did.                                          *)
(***************************************************************************)
IsCommand == op # "none"
\* doctor is the one command that command_errors does not wrap
IsWrapped == IsCommand /\ op # "doctor"

\* calls that go to the network: the ambient lookup, the token endpoint, the API
NetworkCall(l) == \E i \in 1..Len(l) : l[i].e \in {"adc", "refresh", "api"}

\* calls that resolve a credential: on the credential file, the ambient
\* lookup, the token endpoint
CredentialResolution(l) ==
    \E i \in 1..Len(l) :
        \/ l[i].e \in {"load_credentials", "adc", "refresh"}
        \/ l[i].e \in {"exists", "read", "write"} /\ l[i].path = credentials_file

\* the ValidationError of site resolution, and that of build_query_request
SiteResolutionFailed == exc = "ValidationError" /\ msg.kind = "No site specified"
QueryRequestFailed ==
    /\ op = "analytics query"
    /\ exc = "ValidationError"
    /\ msg.kind # "No site specified"

(***************************************************************************)
(* C19.  A ValidationError is raised before any network call: in every     *)
(* command, when the site resolution or build_query_request fails with     *)
(* ValidationError, the invocation has resolved no credential and made no  *)
(* call to the remote API.                                                 *)
(***************************************************************************)
C19_ValidationBeforeNetwork ==
    (IsCommand /\ exc = "ValidationError") =>
        /\ ~NetworkCall(log)
        /\ (SiteResolutionFailed \/ QueryRequestFailed)
           => ~CredentialResolution(log) /\ obtained = NoCred /\ fs = fsBefore

\* the request is refused although a credential file is there to be loaded
C19_Witness ==
    /\ QueryRequestFailed
    /\ fs[credentials_file].kind = "object"
    /\ ~CredentialResolution(log)

(***************************************************************************)
(* C20.  A command wrapped by command_errors ends with status 2 for a      *)
(* ValidationError, ValueError or ConfigError, with 3 for an AuthError and *)
(* with 4 for an HttpError, and with none of the three for anything else:  *)
(* an AuthError never ends with 2, a ValidationError never with 3.         *)
(***************************************************************************)
C20_ExitStatuses ==
    IsWrapped =>
        /\ value.status = 2 <=> exc \in {"ValidationError", "ValueError", "ConfigError"}
        /\ value.status = 3 <=> exc = "AuthError"
        /\ value.status = 4 <=> exc = "HttpError"

C20_Witness == IsWrapped /\ exc = "AuthError" /\ value.status = 3

(***************************************************************************)
(* C21.  An invocation of any command, doctor included, calls              *)
(* load_credentials at most once and the remote API at most once, the      *)
(* former before the latter.                                               *)
(***************************************************************************)
Loads == {i \in 1..Len(log) : log[i].e = "load_credentials"}
ApiCalls == {i \in 1..Len(log) : log[i].e = "api"}

OneResolutionOneCall ==
    /\ Cardinality(Loads) <= 1
    /\ Cardinality(ApiCalls) <= 1
    /\ \A i \in Loads, j \in ApiCalls : i < j

C21_OneResolutionOneCall == IsCommand => OneResolutionOneCall

\* the same of the commands other than doctor
C21_WrappedCommands == IsWrapped => OneResolutionOneCall

(***************************************************************************)
(* C22.  load_credentials and build_query_request end in a fully valid     *)
(* result or in their typed error, AuthError and ValidationError: whatever *)
(* the stored file, the refresh outcome and the inputs, no other exception *)
(* leaves them and no failure is swallowed.                                *)
(***************************************************************************)
C22_TypedErrors ==
    /\ IsLoad =>
          /\ exc \in {"none", "AuthError"}
          /\ exc = "none" => value # NoCred /\ Valid(value, opTime)
          /\ exc = "AuthError" => value = NoCred
    /\ IsBuild =>
          /\ exc \in {"none", "ValidationError"}
          /\ exc = "ValidationError" => value = NoValue

\* the part of build_query_request
C22_BuildIsTyped ==
    IsBuild =>
        /\ exc \in {"none", "ValidationError"}
        /\ exc = "ValidationError" => value = NoValue
        /\ exc = "none" <=> (DatesOk /\ EnumsOk /\ NumbersOk /\ DimensionsOk
                             /\ FiltersOk /\ NoConflict)

(***************************************************************************)
(* C23.  site add, sitemap submit and sitemap delete resolve credentials   *)
(* with the read-write requirement, exactly once; site list, site get,     *)
(* sitemap list, sitemap get, url inspect and analytics query resolve with *)
(* the read-only requirement.                                              *)
(***************************************************************************)
MutatingCommands == {"site add", "sitemap submit", "sitemap delete"}
ReadingCommands == {"site list", "site get", "sitemap list", "sitemap get",
                    "url inspect", "analytics query"}

\* the scope every resolution of the invocation, and every ambient lookup
\* made for it, asked for
ResolvesOnlyWith(scope) ==
    \A i \in 1..Len(log) :
        log[i].e \in {"load_credentials", "adc"} => log[i].scopes = <<scope>>

\* the command got as far as the credentials: it ended well, or with an
\* error of the credentials or of the API
ReachedCredentials ==
    exc \in {"none", "AuthError", "HttpError", "TypeError"}

C23_ScopeLevelOfCommands ==
    /\ op \in MutatingCommands =>
          /\ ResolvesOnlyWith("https://www.googleapis.com/auth/webmasters")
          /\ Cardinality(Loads) <= 1
          /\ ReachedCredentials => Cardinality(Loads) = 1
    /\ op \in ReadingCommands =>
          /\ ResolvesOnlyWith("https://www.googleapis.com/auth/webmasters.readonly")
          /\ Cardinality(Loads) <= 1
          /\ ReachedCredentials => Cardinality(Loads) = 1

C23_Witness ==
    /\ op = "site add"
    /\ exc = "none"
    /\ Cardinality(Loads) = 1
    /\ Cardinality(ApiCalls) = 1

(***************************************************************************)
(* C24.  The config round trip: for a site s that is not blank,            *)
(* set_default_site(s) and then get_default_site() gives s without the     *)
(* blanks around it; for a blank s, set_default_site fails with            *)
(* ConfigError and leaves the config file as it was; and with no config    *)
(* file load_config is empty and get_default_site is None.                 *)
(***************************************************************************)
\* a text without its blanks
Trimmed(text) == SelectSeq(text, LAMBDA piece : piece # " ")

C24_ConfigRoundTrip ==
    /\ op = "config set default-site" =>
          IF Trimmed(arg) = <<>>
          THEN exc = "ConfigError" /\ fs = fsBefore
          ELSE /\ exc = "none"
               /\ get_default_site(fs).exc = "none"
               /\ get_default_site(fs).value = Str(Trimmed(arg))
    /\ (op = "config get default-site" /\ fsBefore[app_config_file] = Absent) =>
          /\ load_config(fsBefore).exc = "none"
          /\ load_config(fsBefore).value = ConfigDoc(Omitted)
          /\ exc = "ValidationError" /\ msg.kind = "default-site is not set."

\* the same when the config file is absent or holds a JSON object
C24_ReadableConfig ==
    fsBefore[app_config_file].kind \in {"absent", "config"} => C24_ConfigRoundTrip

(***************************************************************************)
(* C25.  A command uses the value of --site when one is given, and does    *)
(* not read the stored default then; without it, it uses the stored        *)
(* default site; with neither it fails with the ValidationError 'No site   *)
(* specified' and status 2, resolving no credential and calling no API.    *)
(***************************************************************************)
SiteCommands == (MutatingCommands \cup ReadingCommands) \ {"site list"}
SiteOption == IF op = "analytics query" THEN arg.site_url ELSE arg
SiteGiven == SiteOption.t = "str" /\ SiteOption.v # <<>>
ConfigBefore == fsBefore[app_config_file]
ConfigReadable == ConfigBefore.kind \in {"absent", "config"}
DefaultStored ==
    /\ ConfigBefore.kind = "config"
    /\ ConfigBefore.default_site.t = "str"
    /\ Trimmed(ConfigBefore.default_site.v) # <<>>
ConfigReads == {i \in 1..Len(log) : log[i].e = "config"}
CallsOnlyFor(site) == \A i \in ApiCalls : log[i].scopes = site

C25_SiteResolution ==
    op \in SiteCommands =>
        /\ SiteGiven =>
              /\ ConfigReads = {}
              /\ CallsOnlyFor(SiteOption.v)
              /\ ~SiteResolutionFailed
        /\ (~SiteGiven /\ DefaultStored) =>
              /\ CallsOnlyFor(Trimmed(ConfigBefore.default_site.v))
              /\ ~SiteResolutionFailed
        /\ (~SiteGiven /\ ConfigReadable /\ ~DefaultStored) =>
              /\ SiteResolutionFailed
              /\ value.status = 2
              /\ ~CredentialResolution(log)
              /\ ApiCalls = {}

\* the stored default is what the API is called for
C25_Witness ==
    /\ op \in SiteCommands
    /\ ~SiteGiven /\ DefaultStored
    /\ ApiCalls # {}
    /\ CallsOnlyFor(<<"site">>)

(***************************************************************************)
(* C26.  build_query_request reports the first constraint violated, in the *)
(* order: syntax of the start date, syntax of the end date, start <= end,  *)
(* type, aggregation type, data state, row limit, start row, membership of *)
(* the dimensions in their order, parsing of the filters in their order,   *)
(* the byProperty rule.                                                    *)
(***************************************************************************)
FirstIn(S) == CHOOSE i \in S : \A j \in S : i <= j
BadDimensions == {i \in 1..Len(arg.dimensions) : arg.dimensions[i] \notin ALLOWED_DIMENSIONS}
BadFilters == {i \in 1..Len(arg.filters) : Verdict(arg.filters[i]) # "accepted"}

\* the message of the first constraint violated, NoMsg when none is
FirstViolation ==
    IF ~IsDate(arg.start_date) THEN VMsg("Invalid date", arg.start_date)
    ELSE IF ~IsDate(arg.end_date) THEN VMsg("Invalid date", arg.end_date)
    ELSE IF Ordinal(arg.start_date) > Ordinal(arg.end_date)
    THEN VMsg("start-date must be <= end-date.", <<>>)
    ELSE IF arg.query_type \notin ALLOWED_TYPES
    THEN VMsg("Unsupported type", <<arg.query_type>>)
    ELSE IF arg.aggregation_type \notin ALLOWED_AGGREGATION_TYPES
    THEN VMsg("Unsupported aggregation-type", <<arg.aggregation_type>>)
    ELSE IF arg.data_state \notin ALLOWED_DATA_STATES
    THEN VMsg("Unsupported data-state", <<arg.data_state>>)
    ELSE IF ~(arg.row_limit \in 1..25000)
    THEN VMsg("row-limit must be between 1 and 25000.", <<>>)
    ELSE IF arg.start_row < 0 THEN VMsg("start-row must be >= 0.", <<>>)
    ELSE IF BadDimensions # {}
    THEN VMsg("Unsupported dimension", <<arg.dimensions[FirstIn(BadDimensions)]>>)
    ELSE IF BadFilters # {}
    THEN VMsg(Verdict(arg.filters[FirstIn(BadFilters)]), <<>>)
    ELSE IF ~NoConflict THEN VMsg(ByPropertyMessage, <<>>)
    ELSE NoMsg

C26_FirstViolationReported ==
    IsBuild =>
        IF FirstViolation = NoMsg
        THEN exc = "none"
        ELSE /\ exc = "ValidationError"
             /\ msg.kind = FirstViolation.kind
             /\ FirstViolation.kind \in {"Invalid date", "Unsupported dimension"}
                => msg = FirstViolation

\* the type and the row limit are both wrong: the type is reported
C26_Witness ==
    /\ IsBuild /\ DatesOk
    /\ arg.query_type \notin ALLOWED_TYPES
    /\ ~(arg.row_limit \in 1..25000)
    /\ msg.kind = "Unsupported type"

(***************************************************************************)
(* C27.  Whatever the operations, the credential file is created or        *)
(* overwritten only by a login that succeeds and by a refresh that         *)
(* succeeds of a credential loaded from that file; no operation deletes    *)
(* it; and a failed login, a failed resolution, a resolution through the   *)
(* ambient path, stored_credentials_info and the introspection of doctor   *)
(* leave its content as it was.                                            *)
(***************************************************************************)
CredentialFileChanged == fs[credentials_file] # fsBefore[credentials_file]

\* the flow of login ran and login returned
LoginSucceeded ==
    /\ exc = "none"
    /\ \E i \in 1..Len(log) : log[i].e = "flow"

\* the file was read, the credential read from it refreshed, and then written
StoredRefreshSucceeded ==
    \E i \in 2..(Len(log) - 1) :
        /\ log[i - 1] = EvRead(credentials_file)
        /\ log[i].e = "refresh"
        /\ log[i + 1] = EvWrite(credentials_file)

\* the writes of the credential file are those of the two
WritesOfCredentialFile == {i \in 1..Len(log) : log[i] = EvWrite(credentials_file)}

C27_CredentialFileFrame ==
    IsCommand =>
        /\ fsBefore[credentials_file] # Absent => fs[credentials_file] # Absent
        /\ CredentialFileChanged => (LoginSucceeded \/ StoredRefreshSucceeded)
        /\ WritesOfCredentialFile # {} => (LoginSucceeded \/ StoredRefreshSucceeded)
        /\ \A i \in WritesOfCredentialFile :
              i > 1 /\ log[i - 1].e \in {"flow", "refresh"}
        /\ fs[credentials_file] # Absent => fs[credentials_file].kind \in
              {"badjson", "nonobject", "object"}

\* doctor refreshed the stored credential and wrote it back
C27_Witness ==
    /\ op = "doctor"
    /\ CredentialFileChanged
    /\ StoredRefreshSucceeded

(***************************************************************************)
(* Two invocations at once (auth.py:84-144).  Each is a process of its own *)
(* that runs load_credentials; what one process does between two accesses  *)
(* to the file or to the token endpoint is one step.  op is the place each *)
(* process has got to, arg the scope level it asks for, obtained the       *)
(* credential it holds in memory, exc and msg how it failed, value the     *)
(* number of tokens the endpoint has issued, log the accesses in order,    *)
(* each with the process that made it.                                     *)
(***************************************************************************)
Procs == {1, 2}

\* the tokens the endpoint issues, in the order it issues them
IssuedTokens == <<"t1", "t2">>

\* an access, by a process
By(p, event) == [e |-> event.e, path |-> event.path, scopes |-> event.scopes, by |-> p]

\* the credential file the two invocations find: none, an unreadable one, or
\* a credential granted one scope that has expired or is about to
InitRace ==
    /\ fs \in {[p \in Paths |-> IF p = credentials_file THEN f ELSE Absent] :
                 f \in {Absent, [kind |-> "badjson"]}
                       \cup {Object([t |-> "list", v |-> <<scope>>], "r", "abc", "t0", e, FALSE) :
                               scope \in {READ_SCOPE, WRITE_SCOPE}, e \in {At(0), At(1)}}}
    /\ now = 0
    /\ op = [p \in Procs |-> "start"]
    /\ arg \in [Procs -> BOOLEAN]
    /\ exc = [p \in Procs |-> "none"]
    /\ msg = [p \in Procs |-> NoMsg]
    /\ obtained = [p \in Procs |-> NoCred]
    /\ value = 0
    /\ log = <<>>
    /\ fsBefore = fs
    /\ opTime = 0

\* a process ends: with the credential it returns, or with what it raises
Ends(p, e, m, credentials, l) ==
    /\ op' = [op EXCEPT ![p] = IF e = "none" THEN "done" ELSE "failed"]
    /\ exc' = [exc EXCEPT ![p] = e]
    /\ msg' = [msg EXCEPT ![p] = m]
    /\ obtained' = [obtained EXCEPT ![p] = credentials]
    /\ log' = log \o [i \in 1..Len(l) |-> By(p, l[i])]

\* auth.py:50-58, 84-118: from the start of load_credentials to the refresh,
\* should one be due: the file is looked for and read, the scope checked,
\* the validity tested; without a file the ambient path is taken, which
\* does not touch the file
ReadStored(p) ==
    /\ op[p] = "start"
    /\ UNCHANGED <<fs, now, arg, value, fsBefore, opTime>>
    /\ LET path == credentials_file
           required_scope == RequiredScope(arg[p])
           l1 == <<EvExists(path), EvRead(path)>>
           credentials == from_authorized_user_file(fs[path], now)
           checked == _validate_scope(credentials.scopes, required_scope)
       IN  IF fs[path] = Absent
           THEN \E adc \in AdcOutcomes(<<required_scope>>, now), ro \in RefreshOutcomes :
                   LET r == _load_adc_credentials(required_scope, adc, ro,
                                                  <<EvExists(path)>>, fs, now)
                   IN  Ends(p, r.exc, r.msg, r.value, r.log)
           ELSE IF Unparsable(fs[path])
           THEN Ends(p, "AuthError", Msg("Stored credentials are unreadable", TRUE, <<>>),
                     NoCred, l1)
           ELSE IF checked.exc # "none"
           THEN Ends(p, checked.exc, checked.msg, NoCred, l1)
           ELSE IF Valid(credentials, now)
           THEN Ends(p, "none", NoMsg, credentials, l1)
           ELSE IF Expired(credentials, now) /\ Truthy(credentials.refresh_token)
           THEN /\ op' = [op EXCEPT ![p] = "refreshing"]
                /\ obtained' = [obtained EXCEPT ![p] = credentials]
                /\ log' = log \o [i \in 1..Len(l1) |-> By(p, l1[i])]
                /\ UNCHANGED <<exc, msg>>
           ELSE Ends(p, "AuthError",
                     Msg("Stored OAuth credentials are invalid and cannot be refreshed",
                         TRUE, <<>>),
                     NoCred, l1)

\* auth.py:119-127: credentials.refresh(Request()), which gives the process
\* the next token of the endpoint, or fails
Refresh(p) ==
    /\ op[p] = "refreshing"
    /\ UNCHANGED <<fs, now, arg, fsBefore, opTime>>
    /\ \/ /\ value < Len(IssuedTokens)
          /\ value' = value + 1
          /\ op' = [op EXCEPT ![p] = "persisting"]
          /\ obtained' = [obtained EXCEPT
                            ![p] = refresh(@, IssuedTokens[value + 1], now)]
          /\ log' = Append(log, By(p, EvRefresh))
          /\ UNCHANGED <<exc, msg>>
       \/ /\ UNCHANGED value
          /\ Ends(p, "AuthError",
                  Msg("Stored OAuth credentials could not be refreshed", TRUE, <<>>),
                  NoCred, <<EvRefresh>>)

\* auth.py:129-131: _persist_credentials, and the return
Persist(p) ==
    /\ op[p] = "persisting"
    /\ fs' = _persist_credentials(obtained[p], credentials_file, fs)
    /\ op' = [op EXCEPT ![p] = "done"]
    /\ log' = Append(log, By(p, EvWrite(credentials_file)))
    /\ UNCHANGED <<now, arg, exc, msg, obtained, value, fsBefore, opTime>>

NextRace == \E p \in Procs : ReadStored(p) \/ Refresh(p) \/ Persist(p)

SpecRace == InitRace /\ [][NextRace]_vars

(***************************************************************************)
(* C28.  Nothing serializes two invocations on the credential file: a      *)
(* process that is to refresh or to write can do so wherever the other     *)
(* has got to; every write replaces the whole document, so that the file   *)
(* holds the full document of the last writer; and there is an             *)
(* interleaving in which two invocations started on the same expired,      *)
(* refreshable credential both refresh and both write, the file ending     *)
(* with the document of the later writer, which may hold the older token.  *)
(***************************************************************************)
RefreshesBy(p) == {i \in 1..Len(log) : log[i].e = "refresh" /\ log[i].by = p}
WritesBy(p) == {i \in 1..Len(log) : log[i].e = "write" /\ log[i].by = p}
AllWrites == UNION {WritesBy(p) : p \in Procs}
LastWriter == log[CHOOSE i \in AllWrites : \A j \in AllWrites : j <= i].by

C28_NoSerialization ==
    /\ \A p \in Procs :
          /\ op[p] = "refreshing" => ENABLED Refresh(p)
          /\ op[p] = "persisting" => ENABLED Persist(p)
    /\ AllWrites # {} =>
          fs[credentials_file] = WithNewline(to_json(obtained[LastWriter]))
    /\ AllWrites = {} => fs = fsBefore

\* both refreshed, both wrote, and the file holds the token issued first
C28_Witness ==
    /\ \A p \in Procs : op[p] = "done" /\ RefreshesBy(p) # {} /\ WritesBy(p) # {}
    /\ value = 2
    /\ fs[credentials_file].token = IssuedTokens[1]
    /\ fs[credentials_file] = WithNewline(to_json(obtained[LastWriter]))

(***************************************************************************)
(* What doctor printed.                                                    *)
(***************************************************************************)
IsDoctor == op = "doctor"
CheckNames == {"python", "config-path", "default-site", "stored-credentials",
               "auth-refresh", "api-connectivity"}
RowsFor(name) == {i \in 1..Len(value.out) : value.out[i].check = name}
FailedRows == {i \in 1..Len(value.out) : value.out[i].status = "fail"}

(***************************************************************************)
(* C29.  doctor runs all of its checks even when earlier ones fail, and    *)
(* ends with status 1 if and only if a check has the status "fail",        *)
(* warnings not counting, and with status 0 otherwise.                     *)
(***************************************************************************)
AllChecksRun == \A name \in CheckNames : RowsFor(name) # {}

C29_DoctorRunsAllChecks ==
    IsDoctor =>
        /\ AllChecksRun
        /\ value.status = 1 <=> FailedRows # {}
        /\ value.status # 1 => value.status = 0

\* the same of the runs in which no exception leaves doctor
C29_WhenNothingEscapes == (IsDoctor /\ exc = "none") => C29_DoctorRunsAllChecks

(***************************************************************************)
(* C30.  In every run of doctor, whatever the credential file is (absent,  *)
(* readable, malformed), the table has exactly one row for each of the six *)
(* check names, and the count of failures is the number of rows with the   *)
(* status "fail".                                                          *)
(***************************************************************************)
C30_OneRowPerCheck ==
    IsDoctor =>
        /\ \A name \in CheckNames : Cardinality(RowsFor(name)) = 1
        /\ \A i \in 1..Len(value.out) : value.out[i].check \in CheckNames
        /\ value.failures = Cardinality(FailedRows)

\* the same of the runs in which stored_credentials_info does not raise
C30_WhenInfoReturns ==
    (IsDoctor /\ exc = "none" /\ fsBefore[credentials_file].kind # "badjson")
    => C30_OneRowPerCheck

\* the count of failures is right in every run that prints the table
C30_FailureCount ==
    (IsDoctor /\ exc = "none") => value.failures = Cardinality(FailedRows)

====
